---- MODULE Spec2Model ----
(***************************************************************************)
(* Model of the job controller of guide_creator's Electron main process   *)
(* (src/main.js): the 'process-videos' handler with its pre-cache phase   *)
(* and main loop, the 'control-processing' handler (pause/resume/stop),   *)
(* killFfmpeg, and the subprocess close/error callbacks of runFfmpeg and  *)
(* getVideoInfo; and of the renderer's process button                     *)
(* (src/unnamed/part_005), which is where start requests come from.       *)
(*                                                                         *)
(* JavaScript runs each handler and each promise continuation to the next *)
(* await without interruption, so every action below is one such          *)
(* synchronous segment: an IPC message or a subprocess event arrives, and *)
(* the code runs until every affected async function is suspended again.  *)
(***************************************************************************)
EXTENDS Integers, Sequences, FiniteSets, TLC

\* ---------------------------------------------------------------- bounds
MaxRuns == 2        \* 'process-videos' requests received
MaxChapters == 2    \* chapters in one submitted list
MaxCommands == 2    \* 'control-processing' messages received

\* Invocations of the 'process-videos' handler that can be suspended at the
\* same time: the handler is async, so a second request received before the
\* first invocation returned runs beside it.
Slots == {1, 2}
Files == {"A", "B"}

\* A submitted list is the sourceFile of each chapter, in submission
\* order; the chapter at position k has the id k (ids are distinct).
\* The first chapter's file is called "A".
Submissions ==
    { s \in UNION { [1..n -> Files] : n \in 1..MaxChapters } : s[1] = "A" }

NoInfo == [f \in Files |-> "none"]

VARIABLES
    processingState,        \* main.js: [isProcessing, isPaused, shouldStop]
    currentFfmpegProcess,   \* main.js: 0 (null) or the slot whose ffmpeg child is tracked
    rendererIsProcessing,   \* renderer: isProcessing
    pc,                     \* per invocation: where it is suspended
    chapters,               \* per invocation: the submitted list
    i,                      \* per invocation: position of the main loop (from 1)
    videoInfos,             \* per invocation: file -> "none" | "ok" | "novideo"
    proc,                   \* per invocation: its ffmpeg child
    log,                    \* per invocation: the messages it sent to the renderer
    started,                \* number of 'process-videos' requests so far
    commands,               \* number of 'control-processing' messages so far
    stopIssued,             \* per invocation: stop was received while it ran
    stopAt,                 \* per invocation: chapter in flight at the first stop
    tracing,                \* chapter-updates are recorded in log
    temps,                  \* per invocation: artifacts of its latest attempt that may exist
    call,                   \* a function of the program under study: [op, in, out]
    rendererChapters,       \* renderer: chapters, as [sourceFile, title]; a title is
                            \* the number of version suffixes after the enriched name
    baseTitles              \* per invocation: the titles of the submitted chapters

vars == <<processingState, currentFfmpegProcess, rendererIsProcessing, pc,
          chapters, i, videoInfos, proc, log, started, commands, stopIssued,
          stopAt, tracing, temps, call, rendererChapters,
          baseTitles>>

\* ---------------------------------------------------------------- helpers
Stages == {"prefix", "suffix", "transcode"}

Entry(k, s, c) == [k |-> k, s |-> s, c |-> c]

\* mainWindow.webContents.send('chapter-update', {chapterId: k, status: s});
\* c records why (it is not part of the message).
ChapterUpdate(l, k, s, c) == IF tracing THEN Append(l, Entry(k, s, c)) ELSE l

\* mainWindow.webContents.send('processing-complete' | '-stopped' | '-error')
RunSignal(l, s) == Append(l, Entry(0, s, ""))

ResetState == [isProcessing |-> FALSE, isPaused |-> FALSE, shouldStop |-> FALSE]

\* The part of the state one synchronous segment of invocation r works on.
Ctx(r) == [ps |-> processingState, cur |-> currentFfmpegProcess,
           pc |-> pc[r], i |-> i[r], proc |-> proc[r], log |-> log[r],
           temps |-> temps[r]]

\* Finish with the else of line 500 missing: a stopped run sends both signals.
FinishWithoutElse(c) ==
    [c EXCEPT !.log = IF c.ps.shouldStop
                      THEN RunSignal(RunSignal(c.log, "processing-stopped"),
                                     "processing-complete")
                      ELSE RunSignal(c.log, "processing-complete"),
              !.ps = ResetState,
              !.cur = 0,
              !.pc = "done"]

\* Finish that does not look at shouldStop: every run ends with
\* processing-complete.
FinishAlwaysComplete(c) ==
    [c EXCEPT !.log = RunSignal(c.log, "processing-complete"),
              !.ps = ResetState,
              !.cur = 0,
              !.pc = "done"]

\* lines 497-508: run-level signal, then the state is reset
Finish(c) ==
    [c EXCEPT !.log = RunSignal(c.log, IF c.ps.shouldStop
                                       THEN "processing-stopped"
                                       ELSE "processing-complete"),
              !.ps = ResetState,
              !.cur = 0,
              !.pc = "done"]

\* The temporary artifacts of one attempt (lines 567-569), in the order in
\* which the cleanup goes through them (line 669).
Artifacts == {"prefix", "suffix", "metadata"}

ArtifactOrder == <<"prefix", "suffix", "metadata">>

\* What a stage of processSingleChapter puts on disk: createStillFrame
\* writes the still it is given (lines 572-574); before the transcode is
\* spawned the metadata file is written (line 581).
Artifact(stage) == IF stage = "transcode" THEN "metadata" ELSE stage

\* runFfmpeg, lines 713-716: spawn and track the child.  From here on the
\* artifact of the stage may exist.  The first stage opens a new attempt,
\* whose artifacts are the ones followed from then on: what an earlier
\* attempt left behind was visible when that attempt ended, and nothing
\* creates an artifact of an attempt that has ended.
runFfmpeg(c, r, stage) ==
    [c EXCEPT !.cur = r,
              !.proc = "live",
              !.pc = stage,
              !.temps = IF stage = "prefix" THEN {"prefix"}
                        ELSE c.temps \cup {Artifact(stage)}]

\* The finally block with the try/catch around the whole for loop: the
\* first unlinkSync that throws ends the cleanup and leaves the block.
CleanupThrows(T, D) ==
    LET bad == { n \in DOMAIN ArtifactOrder : ArtifactOrder[n] \in T \cap D }
        first == CHOOSE n \in bad : \A m \in bad : n <= m
    IN IF bad = {} THEN [temps |-> {}, threw |-> FALSE]
       ELSE [temps |-> { ArtifactOrder[n] : n \in { m \in DOMAIN ArtifactOrder : m >= first } }
                         \cap T,
             threw |-> TRUE]

\* The finally block that leaves the metadata file out of its list.
CleanupForgetsMetadata(T, D) ==
    [temps |-> T \cap (D \cup {"metadata"}), threw |-> FALSE]

\* finally block of processSingleChapter, lines 666-679, with the artifacts
\* T on disk: each one that exists is unlinked; an unlinkSync that throws
\* (the artifacts in D) is logged and the loop over the artifacts goes on.
\* temps: what is left on disk; threw: an error leaves the block.
Cleanup(T, D) == [temps |-> T \cap D, threw |-> FALSE]

\* The main loop from the top of iteration c.i (lines 399-466) up to the
\* next await.  chs and vi are the run's chapters and videoInfos; F is the
\* set of positions whose fs.mkdirSync throws when it is called.
RECURSIVE Loop(_, _, _, _, _)

\* Loop with the continue of line 434 missing: after a failed mkdirSync
\* the iteration carries on.
LoopWithoutContinue(c, r, chs, vi, F) ==
    IF c.i > Len(chs) THEN Finish(c)
    ELSE IF c.ps.shouldStop THEN Finish(c)
    ELSE IF c.ps.isPaused THEN [c EXCEPT !.pc = "pausewait"]
    ELSE LET c0 == IF c.i \in F
                   THEN [c EXCEPT !.log = ChapterUpdate(c.log, c.i, "Error", "mkdir")]
                   ELSE c
             c1 == [c0 EXCEPT !.log = ChapterUpdate(c0.log, c.i, "Processing", "")]
         IN IF vi[chs[c.i]] = "novideo"
            THEN Loop([c1 EXCEPT !.log = ChapterUpdate(c1.log, c.i, "Error", "novideo"),
                                 !.i = c.i + 1], r, chs, vi, F)
            ELSE runFfmpeg(c1, r, "prefix")

\* Loop that looks at isPaused before shouldStop and waits without the
\* shouldStop test of line 406.
LoopWaitsBeforeStop(c, r, chs, vi, F) ==
    IF c.i > Len(chs) THEN Finish(c)
    ELSE IF c.ps.isPaused THEN [c EXCEPT !.pc = "pausewait"]
    ELSE IF c.ps.shouldStop THEN Finish(c)
    ELSE IF c.i \in F
         THEN Loop([c EXCEPT !.log = ChapterUpdate(c.log, c.i, "Error", "mkdir"),
                             !.i = c.i + 1], r, chs, vi, F)
    ELSE LET c1 == [c EXCEPT !.log = ChapterUpdate(c.log, c.i, "Processing", "")]
         IN IF vi[chs[c.i]] = "novideo"
            THEN Loop([c1 EXCEPT !.log = ChapterUpdate(c1.log, c.i, "Error", "novideo"),
                                 !.i = c.i + 1], r, chs, vi, F)
            ELSE runFfmpeg(c1, r, "prefix")

\* Loop without the pause wait of lines 405-408: a paused loop goes on to
\* the next attempt.
LoopWithoutPauseWait(c, r, chs, vi, F) ==
    IF c.i > Len(chs) THEN Finish(c)
    ELSE IF c.ps.shouldStop THEN Finish(c)
    ELSE IF c.i \in F
         THEN Loop([c EXCEPT !.log = ChapterUpdate(c.log, c.i, "Error", "mkdir"),
                             !.i = c.i + 1], r, chs, vi, F)
    ELSE LET c1 == [c EXCEPT !.log = ChapterUpdate(c.log, c.i, "Processing", "")]
         IN IF vi[chs[c.i]] = "novideo"
            THEN Loop([c1 EXCEPT !.log = ChapterUpdate(c1.log, c.i, "Error", "novideo"),
                                 !.i = c.i + 1], r, chs, vi, F)
            ELSE runFfmpeg(c1, r, "prefix")

Loop(c, r, chs, vi, F) ==
    IF c.i > Len(chs) THEN Finish(c)
    ELSE IF c.ps.shouldStop THEN Finish(c)
    ELSE IF c.ps.isPaused THEN [c EXCEPT !.pc = "pausewait"]
    ELSE IF c.i \in F
         THEN Loop([c EXCEPT !.log = ChapterUpdate(c.log, c.i, "Error", "mkdir"),
                             !.i = c.i + 1], r, chs, vi, F)
    ELSE LET c1 == [c EXCEPT !.log = ChapterUpdate(c.log, c.i, "Processing", "")]
         IN IF vi[chs[c.i]] = "novideo"
            THEN Loop([c1 EXCEPT !.log = ChapterUpdate(c1.log, c.i, "Error", "novideo"),
                                 !.i = c.i + 1], r, chs, vi, F)
            ELSE runFfmpeg(c1, r, "prefix")

\* CatchOther leaving the loop after the Error update instead of going on.
CatchOtherBreaks(c, r, chs, vi, F, cause) ==
    IF c.ps.shouldStop
    THEN Finish([c EXCEPT !.log = ChapterUpdate(c.log, c.i, "Stopped", cause)])
    ELSE Finish([c EXCEPT !.log = ChapterUpdate(c.log, c.i, "Error", cause)])

\* catch block, lines 478-494, for an error whose message is neither
\* 'paused' nor 'stopped'
CatchOther(c, r, chs, vi, F, cause) ==
    IF c.ps.shouldStop
    THEN Finish([c EXCEPT !.log = ChapterUpdate(c.log, c.i, "Stopped", cause)])
    ELSE Loop([c EXCEPT !.log = ChapterUpdate(c.log, c.i, "Error", cause),
                        !.i = c.i + 1], r, chs, vi, F)

\* The renderer's handlers of the three run-level signals call
\* resetProcessingUI (part_005, lines 181-187 and 425-443).
resetProcessingUI(r, c) ==
    IF Len(c.log) > Len(log[r]) /\ c.log[Len(c.log)].k = 0
    THEN FALSE
    ELSE rendererIsProcessing

\* The chapters of invocation r to which the segment ending in c sent a
\* Processing chapter-update.
Announced(r, c) ==
    { c.log[p].k : p \in { q \in (Len(log[r]) + 1)..Len(c.log) : c.log[q].s = "Processing" } }

\* The renderer's handlers of the messages sent by a segment: onChapterUpdate
\* (part_005, lines 381-392) takes the finalName, which is the submitted
\* title with a version suffix, as the title of a chapter it finds in its
\* list; onProcessingComplete (lines 425-432) empties the list.
onMessages(r, c) ==
    IF Len(c.log) > Len(log[r]) /\ c.log[Len(c.log)].s = "processing-complete"
    THEN <<>>
    ELSE [k \in DOMAIN rendererChapters |->
            IF k \in Announced(r, c) /\ k \in DOMAIN baseTitles[r]
            THEN [rendererChapters[k] EXCEPT !.title = baseTitles[r][k] + 1]
            ELSE rendererChapters[k]]

Commit(r, c) ==
    /\ processingState' = c.ps
    /\ currentFfmpegProcess' = c.cur
    /\ pc' = [pc EXCEPT ![r] = c.pc]
    /\ i' = [i EXCEPT ![r] = c.i]
    /\ proc' = [proc EXCEPT ![r] = c.proc]
    /\ log' = [log EXCEPT ![r] = c.log]
    /\ temps' = [temps EXCEPT ![r] = c.temps]
    /\ rendererIsProcessing' = resetProcessingUI(r, c)
    /\ rendererChapters' = onMessages(r, c)

InitWith(t) ==
    /\ processingState = ResetState
    /\ currentFfmpegProcess = 0
    /\ rendererIsProcessing = FALSE
    /\ pc = [r \in Slots |-> "idle"]
    /\ chapters = [r \in Slots |-> <<>>]
    /\ i = [r \in Slots |-> 1]
    /\ videoInfos = [r \in Slots |-> NoInfo]
    /\ proc = [r \in Slots |-> "none"]
    /\ log = [r \in Slots |-> <<>>]
    /\ started = 0
    /\ commands = 0
    /\ stopIssued = [r \in Slots |-> FALSE]
    /\ stopAt = [r \in Slots |-> 0]
    /\ tracing = t
    /\ temps = [r \in Slots |-> {}]
    /\ rendererChapters = <<>>
    /\ baseTitles = [r \in Slots |-> <<>>]

\* No function is under study.
NoCall == [op |-> "none"]

Init == InitWith(TRUE) /\ call = NoCall

\* ---------------------------------------------------------------- actions
Active(r) == pc[r] \notin {"idle", "done"}

\* The invocation a new request becomes: the first slot not in use.
FreeSlot == CHOOSE r \in Slots : ~Active(r) /\ \A q \in Slots : ~Active(q) => r <= q

\* First position of chs whose sourceFile has no cached info (0 if none).
FirstUncached(chs, vi) ==
    LET U == { k \in 1..Len(chs) : vi[chs[k]] = "none" }
    IN IF U = {} THEN 0 ELSE CHOOSE k \in U : \A m \in U : k <= m

\* ProcessVideos with lines 382-383 missing: isPaused and shouldStop keep
\* the values they had.
ProcessVideosWithoutReset(chs, binOk) ==
    /\ started < MaxRuns
    /\ \E q \in Slots : ~Active(q)
    /\ LET r == FreeSlot IN
       /\ started' = started + 1
       /\ chapters' = [chapters EXCEPT ![r] = chs]
       /\ i' = [i EXCEPT ![r] = 1]
       /\ videoInfos' = [videoInfos EXCEPT ![r] = NoInfo]
       /\ stopIssued' = [stopIssued EXCEPT ![r] = FALSE]
       /\ stopAt' = [stopAt EXCEPT ![r] = 0]
       /\ temps' = [temps EXCEPT ![r] = {}]
       /\ baseTitles' = [baseTitles EXCEPT ![r] =
                            [k \in DOMAIN rendererChapters |-> rendererChapters[k].title]]
       /\ IF ~binOk
          THEN /\ log' = [log EXCEPT ![r] = RunSignal(<<>>, "processing-error")]
               /\ pc' = [pc EXCEPT ![r] = "done"]
               /\ rendererIsProcessing' = FALSE
               /\ UNCHANGED processingState
          ELSE /\ processingState' = [processingState EXCEPT !.isProcessing = TRUE]
               /\ log' = [log EXCEPT ![r] = <<>>]
               /\ pc' = [pc EXCEPT ![r] = "precache"]
               /\ rendererIsProcessing' = TRUE
    /\ UNCHANGED <<currentFfmpegProcess, proc, commands, tracing, call,
                   rendererChapters>>

\* ipcMain.on('process-videos'), lines 364-390: up to the first await.
\* binOk is the result of the two fs.existsSync checks.
ProcessVideos(chs, binOk) ==
    /\ started < MaxRuns
    /\ \E q \in Slots : ~Active(q)
    /\ LET r == FreeSlot IN
       /\ started' = started + 1
       /\ chapters' = [chapters EXCEPT ![r] = chs]
       /\ i' = [i EXCEPT ![r] = 1]
       /\ videoInfos' = [videoInfos EXCEPT ![r] = NoInfo]
       /\ stopIssued' = [stopIssued EXCEPT ![r] = FALSE]
       /\ stopAt' = [stopAt EXCEPT ![r] = 0]
       /\ temps' = [temps EXCEPT ![r] = {}]
       /\ baseTitles' = [baseTitles EXCEPT ![r] =
                            [k \in DOMAIN rendererChapters |-> rendererChapters[k].title]]
       /\ IF ~binOk
          THEN /\ log' = [log EXCEPT ![r] = RunSignal(<<>>, "processing-error")]
               /\ pc' = [pc EXCEPT ![r] = "done"]
               /\ rendererIsProcessing' = FALSE
               /\ UNCHANGED processingState
          ELSE /\ processingState' = [isProcessing |-> TRUE, isPaused |-> FALSE,
                                      shouldStop |-> FALSE]
               /\ log' = [log EXCEPT ![r] = <<>>]
               /\ pc' = [pc EXCEPT ![r] = "precache"]
               /\ rendererIsProcessing' = TRUE
    /\ UNCHANGED <<currentFfmpegProcess, proc, commands, tracing, call,
                   rendererChapters>>

\* processBtn click (part_005, lines 145-163): the button is disabled while
\* the renderer's isProcessing is set (lines 28-35), otherwise the request
\* is sent.
processBtnClick(chs, binOk) ==
    /\ ~rendererIsProcessing
    /\ ProcessVideos(chs, binOk)

\* PrecacheClose with the return of line 394 missing: after processing-error
\* the handler carries on without the info of that file.
PrecacheCloseWithoutReturn(r, res, F) ==
    /\ pc[r] = "precache"
    /\ LET f == chapters[r][FirstUncached(chapters[r], videoInfos[r])]
           vi == [videoInfos[r] EXCEPT ![f] = IF res = "fail" THEN "novideo" ELSE res]
           c == IF res = "fail"
                THEN [Ctx(r) EXCEPT !.log = RunSignal(log[r], "processing-error")]
                ELSE Ctx(r)
       IN /\ videoInfos' = [videoInfos EXCEPT ![r] = vi]
          /\ IF ~processingState.shouldStop /\ FirstUncached(chapters[r], vi) # 0
             THEN /\ log' = [log EXCEPT ![r] = c.log]
                  /\ rendererIsProcessing' = (rendererIsProcessing /\ res # "fail")
                  /\ UNCHANGED <<processingState, currentFfmpegProcess, pc, i, proc,
                                 temps, rendererChapters>>
             ELSE Commit(r, Loop(c, r, chapters[r], vi, F))
    /\ UNCHANGED <<chapters, started, commands, stopIssued, stopAt, tracing,
                   call, baseTitles>>

\* PrecacheClose that leaves the pre-cache loop after its first probe: the
\* main loop starts while later files have no cached info.
PrecacheCloseOneProbe(r, res, F) ==
    /\ pc[r] = "precache"
    /\ LET f == chapters[r][FirstUncached(chapters[r], videoInfos[r])]
           vi == [videoInfos[r] EXCEPT ![f] = res]
       IN IF res = "fail"
          THEN /\ log' = [log EXCEPT ![r] = RunSignal(log[r], "processing-error")]
               /\ pc' = [pc EXCEPT ![r] = "done"]
               /\ rendererIsProcessing' = FALSE
               /\ UNCHANGED <<processingState, currentFfmpegProcess, i,
                              videoInfos, proc, temps, rendererChapters>>
          ELSE /\ videoInfos' = [videoInfos EXCEPT ![r] = vi]
               /\ Commit(r, Loop(Ctx(r), r, chapters[r], vi, F))
    /\ UNCHANGED <<chapters, started, commands, stopIssued, stopAt, tracing,
                   call, baseTitles>>

\* close of the ffprobe child of getVideoInfo during the pre-cache loop
\* (lines 386-397, 701-708), then on to the main loop.
\* res: "ok", "novideo" (parsed, but no video stream with r_frame_rate),
\* "fail" (non-zero exit or unparseable output).
PrecacheClose(r, res, F) ==
    /\ pc[r] = "precache"
    /\ LET f == chapters[r][FirstUncached(chapters[r], videoInfos[r])]
           vi == [videoInfos[r] EXCEPT ![f] = res]
       IN IF res = "fail"
          THEN /\ log' = [log EXCEPT ![r] = RunSignal(log[r], "processing-error")]
               /\ pc' = [pc EXCEPT ![r] = "done"]
               /\ rendererIsProcessing' = FALSE
               /\ UNCHANGED <<processingState, currentFfmpegProcess, i,
                              videoInfos, proc, temps, rendererChapters>>
          ELSE /\ videoInfos' = [videoInfos EXCEPT ![r] = vi]
               /\ IF ~processingState.shouldStop /\ FirstUncached(chapters[r], vi) # 0
                  THEN UNCHANGED <<processingState, currentFfmpegProcess, pc, i,
                                   proc, log, rendererIsProcessing, temps,
                                   rendererChapters>>
                  ELSE Commit(r, Loop(Ctx(r), r, chapters[r], vi, F))
    /\ UNCHANGED <<chapters, started, commands, stopIssued, stopAt, tracing,
                   call, baseTitles>>

\* What the close handler of runFfmpeg sees as the reason of the exit.
ExitCause(r, code) == IF code = "signal" THEN proc[r] ELSE code

\* The close handler rejects the promise of runFfmpeg (lines 728-736).
Rejects(code) ==
    processingState.shouldStop \/ processingState.isPaused \/ code # "ok"

\* runFfmpegClose whose paused branch decrements i twice (line 482), so the
\* loop resumes one chapter too early.
runFfmpegCloseStepsBack(r, code, F) ==
    /\ pc[r] \in Stages
    /\ proc[r] # "none"
    /\ code \in (IF proc[r] = "live" THEN {"ok", "fail"} ELSE {"ok", "signal"})
    /\ LET c0 == [Ctx(r) EXCEPT !.cur = 0, !.proc = "none"]
           c == IF Rejects(code)
                THEN [c0 EXCEPT !.temps = Cleanup(c0.temps, {}).temps]
                ELSE c0
           cause == ExitCause(r, code)
           chs == chapters[r]
           vi == videoInfos[r]
       IN Commit(r,
            IF c.ps.shouldStop
            THEN Finish([c EXCEPT !.log = ChapterUpdate(c.log, c.i, "Stopped", cause)])
            ELSE IF c.ps.isPaused
            THEN Loop([c EXCEPT !.log = ChapterUpdate(c.log, c.i, "Paused", cause),
                                !.i = IF c.i > 1 THEN c.i - 1 ELSE 1],
                      r, chs, vi, F)
            ELSE IF code # "ok"
            THEN CatchOther(c, r, chs, vi, F, cause)
            ELSE IF c.pc = "prefix" THEN runFfmpeg(c, r, "suffix")
            ELSE IF c.pc = "suffix" THEN runFfmpeg(c, r, "transcode")
            ELSE [c EXCEPT !.pc = "verify"])
    /\ UNCHANGED <<chapters, videoInfos, started, commands, stopIssued, stopAt,
                   tracing, call, baseTitles>>

\* runFfmpegClose whose handler tests isPaused before shouldStop
\* (lines 728-733 in the other order).
runFfmpegClosePausedFirst(r, code, F) ==
    /\ pc[r] \in Stages
    /\ proc[r] # "none"
    /\ code \in (IF proc[r] = "live" THEN {"ok", "fail"} ELSE {"ok", "signal"})
    /\ LET c0 == [Ctx(r) EXCEPT !.cur = 0, !.proc = "none"]
           c == IF Rejects(code)
                THEN [c0 EXCEPT !.temps = Cleanup(c0.temps, {}).temps]
                ELSE c0
           cause == ExitCause(r, code)
           chs == chapters[r]
           vi == videoInfos[r]
       IN Commit(r,
            IF c.ps.isPaused
            THEN Loop([c EXCEPT !.log = ChapterUpdate(c.log, c.i, "Paused", cause)],
                      r, chs, vi, F)
            ELSE IF c.ps.shouldStop
            THEN Finish([c EXCEPT !.log = ChapterUpdate(c.log, c.i, "Stopped", cause)])
            ELSE IF code # "ok"
            THEN CatchOther(c, r, chs, vi, F, cause)
            ELSE IF c.pc = "prefix" THEN runFfmpeg(c, r, "suffix")
            ELSE IF c.pc = "suffix" THEN runFfmpeg(c, r, "transcode")
            ELSE [c EXCEPT !.pc = "verify"])
    /\ UNCHANGED <<chapters, videoInfos, started, commands, stopIssued, stopAt,
                   tracing, call, baseTitles>>

\* ffmpeg.on('close'), lines 726-738, and what the awaiting code does next:
\* the rest of processSingleChapter, or its finally block (where every
\* deletion succeeds) and the catch block of the loop.
\* code: "ok" (0), "fail" (non-zero), "signal" (null: the child was killed).
runFfmpegClose(r, code, F) ==
    /\ pc[r] \in Stages
    /\ proc[r] # "none"
    /\ code \in (IF proc[r] = "live" THEN {"ok", "fail"} ELSE {"ok", "signal"})
    /\ LET c0 == [Ctx(r) EXCEPT !.cur = 0, !.proc = "none"]
           c == IF Rejects(code)
                THEN [c0 EXCEPT !.temps = Cleanup(c0.temps, {}).temps]
                ELSE c0
           cause == ExitCause(r, code)
           chs == chapters[r]
           vi == videoInfos[r]
       IN Commit(r,
            IF c.ps.shouldStop
            THEN Finish([c EXCEPT !.log = ChapterUpdate(c.log, c.i, "Stopped", cause)])
            ELSE IF c.ps.isPaused
            THEN Loop([c EXCEPT !.log = ChapterUpdate(c.log, c.i, "Paused", cause)],
                      r, chs, vi, F)
            ELSE IF code # "ok"
            THEN CatchOther(c, r, chs, vi, F, cause)
            ELSE IF c.pc = "prefix" THEN runFfmpeg(c, r, "suffix")
            ELSE IF c.pc = "suffix" THEN runFfmpeg(c, r, "transcode")
            ELSE [c EXCEPT !.pc = "verify"])
    /\ UNCHANGED <<chapters, videoInfos, started, commands, stopIssued, stopAt,
                   tracing, call, baseTitles>>

\* ffmpeg.on('error'), lines 740-743: the child could not be spawned.
runFfmpegError(r, F) ==
    /\ pc[r] \in Stages
    /\ proc[r] # "none"
    /\ LET c == [Ctx(r) EXCEPT !.cur = 0, !.proc = "none",
                               !.temps = Cleanup(temps[r], {}).temps]
       IN Commit(r, CatchOther(c, r, chapters[r], videoInfos[r], F, "spawnerror"))
    /\ UNCHANGED <<chapters, videoInfos, started, commands, stopIssued, stopAt,
                   tracing, call, baseTitles>>

\* close of the ffprobe child that re-probes the output (lines 651-664),
\* then lines 468-476 or the catch block.
VerifyClose(r, res, F) ==
    /\ pc[r] = "verify"
    /\ LET c == [Ctx(r) EXCEPT !.temps = Cleanup(temps[r], {}).temps]
       IN Commit(r,
            IF res = "ok"
            THEN Loop([c EXCEPT !.log = ChapterUpdate(c.log, c.i, "Done", ""),
                                !.i = c.i + 1],
                      r, chapters[r], videoInfos[r], F)
            ELSE CatchOther(c, r, chapters[r], videoInfos[r], F, "probe"))
    /\ UNCHANGED <<chapters, videoInfos, started, commands, stopIssued, stopAt,
                   tracing, call, baseTitles>>

\* The 500 ms timer of the pause wait fires (lines 405-412).
PauseTimer(r, F) ==
    /\ pc[r] = "pausewait"
    /\ Commit(r, Loop(Ctx(r), r, chapters[r], videoInfos[r], F))
    /\ UNCHANGED <<chapters, videoInfos, started, commands, stopIssued, stopAt,
                   tracing, call, baseTitles>>

\* killFfmpeg with line 342 missing: the handle stays tracked after the kill.
killFfmpegKeepsHandle(reason) ==
    IF currentFfmpegProcess = 0
    THEN UNCHANGED <<proc, currentFfmpegProcess>>
    ELSE /\ proc' = [proc EXCEPT ![currentFfmpegProcess] = reason]
         /\ UNCHANGED currentFfmpegProcess

\* killFfmpeg(reason), lines 322-343
killFfmpeg(reason) ==
    IF currentFfmpegProcess = 0
    THEN UNCHANGED <<proc, currentFfmpegProcess>>
    ELSE /\ proc' = [proc EXCEPT ![currentFfmpegProcess] = reason]
         /\ currentFfmpegProcess' = 0

\* The chapter of invocation r that is in flight (0 if none): its attempt
\* is under way, or the loop is paused on it after an interrupted attempt.
InFlight(r) ==
    IF pc[r] \in Stages \cup {"verify"} THEN i[r]
    ELSE IF /\ pc[r] = "pausewait"
            /\ Len(log[r]) > 0
            /\ log[r][Len(log[r])].s = "Paused"
    THEN i[r]
    ELSE 0

\* ipcMain.on('control-processing'), lines 345-362
onControlProcessing(action) ==
    /\ commands < MaxCommands
    /\ commands' = commands + 1
    /\ \/ /\ action = "pause"
          /\ processingState' = [processingState EXCEPT !.isPaused = TRUE]
          /\ killFfmpeg("kill:pause")
          /\ UNCHANGED <<stopIssued, stopAt>>
       \/ /\ action = "resume"
          /\ processingState' = [processingState EXCEPT !.isPaused = FALSE]
          /\ UNCHANGED <<proc, currentFfmpegProcess, stopIssued, stopAt>>
       \/ /\ action = "stop"
          /\ processingState' = [processingState EXCEPT !.shouldStop = TRUE,
                                                        !.isPaused = FALSE]
          /\ killFfmpeg("kill:stop")
          /\ stopIssued' = [r \in Slots |-> stopIssued[r] \/ Active(r)]
          /\ stopAt' = [r \in Slots |->
                          IF Active(r) /\ ~stopIssued[r] THEN InFlight(r)
                          ELSE stopAt[r]]
    /\ UNCHANGED <<rendererIsProcessing, pc, chapters, i, videoInfos, log,
                   started, tracing, temps, rendererChapters, baseTitles>>

\* A command received by the main process.
ControlProcessing(action) ==
    /\ onControlProcessing(action)
    /\ UNCHANGED call

\* The positions from the loop position of invocation r on whose
\* fs.mkdirSync (line 429) throws when the loop comes to them.
MkdirFailures(r) == SUBSET (i[r]..Len(chapters[r]))

\* The callbacks of a run: exits of its children and the pause timer.
Callbacks ==
    \/ \E r \in Slots : \E res \in {"ok", "novideo", "fail"}, F \in MkdirFailures(r) :
          PrecacheClose(r, res, F)
    \/ \E r \in Slots : \E code \in {"ok", "fail", "signal"}, F \in MkdirFailures(r) :
          runFfmpegClose(r, code, F)
    \/ \E r \in Slots : \E F \in MkdirFailures(r) : runFfmpegError(r, F)
    \/ \E r \in Slots : \E res \in {"ok", "fail"}, F \in MkdirFailures(r) :
          VerifyClose(r, res, F)
    \/ \E r \in Slots : \E F \in MkdirFailures(r) : PauseTimer(r, F)

\* Everything but the start of a run.
Step ==
    \/ Callbacks
    \/ \E action \in {"pause", "resume", "stop"} : ControlProcessing(action)

\* The application: runs are started from the renderer's process button.
Next ==
    \/ \E chs \in Submissions, binOk \in BOOLEAN : processBtnClick(chs, binOk)
    \/ Step

Spec == Init /\ [][Next]_vars

\* The main process as an IPC endpoint: 'process-videos' is handled
\* whenever it is received.
NextReentrant ==
    \/ \E chs \in Submissions, binOk \in BOOLEAN : ProcessVideos(chs, binOk)
    \/ Step

SpecReentrant == InitWith(FALSE) /\ call = NoCall /\ [][NextReentrant]_vars

\* A command received while an invocation of the handler is active.
ActiveCommand(action) ==
    /\ \E r \in Slots : Active(r)
    /\ ControlProcessing(action)

\* A command received while no invocation of the handler is active.  The
\* workspace keeps the number of runs started before the last such command.
IdleCommand(action) ==
    /\ \A r \in Slots : ~Active(r)
    /\ onControlProcessing(action)
    /\ call' = [op |-> "idle", started |-> started]

NextIdle ==
    \/ \E chs \in Submissions, binOk \in BOOLEAN : processBtnClick(chs, binOk)
    \/ Callbacks
    \/ \E action \in {"pause", "resume", "stop"} : ActiveCommand(action)
    \/ \E action \in {"pause", "resume", "stop"} : IdleCommand(action)

SpecIdle == Init /\ [][NextIdle]_vars

\* onAnalyzeComplete (part_005, lines 199-245): the renderer takes the
\* chapters of an analysis, all selected, each with its enriched title.
\* The analyze button is disabled while the renderer's isProcessing is set.
onAnalyzeComplete(chs) ==
    /\ ~rendererIsProcessing
    /\ rendererChapters' = [k \in DOMAIN chs |-> [sourceFile |-> chs[k], title |-> 0]]
    /\ UNCHANGED <<processingState, currentFfmpegProcess, rendererIsProcessing, pc,
                   chapters, i, videoInfos, proc, log, started, commands,
                   stopIssued, stopAt, tracing, temps, call, baseTitles>>

\* processBtn click with the chapters of the renderer's list, all selected
\* (part_005, lines 145-163).
processSelected(binOk) ==
    /\ rendererChapters # <<>>
    /\ processBtnClick([k \in DOMAIN rendererChapters |-> rendererChapters[k].sourceFile],
                       binOk)

\* The application with the renderer's chapter list: analysis fills it,
\* runs are started on it.
NextSelected ==
    \/ \E chs \in Submissions : onAnalyzeComplete(chs)
    \/ \E binOk \in BOOLEAN : processSelected(binOk)
    \/ Step

SpecSelected == Init /\ [][NextSelected]_vars

\* The application with the event loop's timers: the callback of a pending
\* setTimeout (line 407) is run eventually.
SpecTimers ==
    Init /\ [][Next]_vars
         /\ WF_vars(\E r \in Slots : \E F \in MkdirFailures(r) : PauseTimer(r, F))


\* ------------------------------------------------- functions studied alone
\* The variables of the job controller, which stand still meanwhile.
controller == <<processingState, currentFfmpegProcess, rendererIsProcessing, pc,
                chapters, i, videoInfos, proc, log, started, commands,
                stopIssued, stopAt, tracing, temps, rendererChapters, baseTitles>>

\* How the try block of processSingleChapter (lines 559-664) completes: it
\* returns the durations, or throws the error of runFfmpeg ('paused',
\* 'stopped', an exit code) or of getVideoInfo.
Completions == {"return", "paused", "stopped", "failed"}

\* processSingleChapter from the end of its try block on: the finally block
\* runs, and an error leaving it would take the place of the completion.
\* T: the artifacts on disk; D: those whose unlinkSync throws.
processSingleChapterExit(completion, T, D) ==
    LET cl == Cleanup(T, D)
    IN [completion |-> IF cl.threw THEN "unlink" ELSE completion,
        temps |-> cl.temps]

\* What the loop does with the completion of an attempt (lines 466-494):
\* the chapter status it sends and where it goes next.
Outcome(completion, shouldStop) ==
    IF completion = "return" THEN [status |-> "Done", then |-> "next"]
    ELSE IF completion = "paused" THEN [status |-> "Paused", then |-> "retry"]
    ELSE IF shouldStop \/ completion = "stopped"
    THEN [status |-> "Stopped", then |-> "break"]
    ELSE [status |-> "Error", then |-> "next"]

AttemptInputs ==
    [completion : Completions, temps : SUBSET Artifacts, throws : SUBSET Artifacts,
     shouldStop : BOOLEAN]

InitAttempt ==
    /\ InitWith(FALSE)
    /\ call \in [op : {"attempt"}, in : AttemptInputs, out : {<<>>}]

\* One attempt ends: cleanup, then the loop reports it.
EndAttempt ==
    /\ call.op = "attempt"
    /\ call.out = <<>>
    /\ LET x == processSingleChapterExit(call.in.completion, call.in.temps,
                                         call.in.throws)
           o == Outcome(x.completion, call.in.shouldStop)
       IN call' = [call EXCEPT !.out = <<[status |-> o.status, then |-> o.then,
                                         temps |-> x.temps]>>]
    /\ UNCHANGED controller

SpecAttempt == InitAttempt /\ [][EndAttempt]_vars


\* Time range of a chapter (lines 458-463).  ffprobe gives start_time and
\* duration as decimal strings: here a string is its sequence of digits.
MaxTimedChapters == 3   \* chapters in a list whose time ranges are computed
MaxTime == 3            \* largest time written in a string

\* The strings ffprobe may write for the times 0..MaxTime: one digit, or
\* two with a leading zero.
TimeStrings == { <<d>> : d \in 0..MaxTime } \cup { <<0, d>> : d \in 0..MaxTime }

\* parseFloat of a string of digits
RECURSIVE parseFloat(_)
parseFloat(str) ==
    IF Len(str) = 1 THEN str[1]
    ELSE 10 * parseFloat(SubSeq(str, 1, Len(str) - 1)) + str[Len(str)]

TimedChapters == [sourceFile : Files, start_time : TimeStrings]

\* The lists analysis can produce: within one file the start times of
\* successive chapters increase and lie before the end of the file.
TimedLists(duration) ==
    { chs \in UNION { [1..n -> TimedChapters] : n \in 1..MaxTimedChapters } :
        /\ \A k \in DOMAIN chs :
              parseFloat(chs[k].start_time) < parseFloat(duration[chs[k].sourceFile])
        /\ \A j, k \in DOMAIN chs :
              (j < k /\ chs[j].sourceFile = chs[k].sourceFile) =>
                  parseFloat(chs[j].start_time) < parseFloat(chs[k].start_time) }

\* chapters[i + 1], whatever its file.
NextChapterInList(chs, k) == IF k < Len(chs) THEN k + 1 ELSE 0

\* chapters.find((c, j) => j > i && c.sourceFile === chapter.sourceFile),
\* line 462: the position found, 0 for undefined.
NextChapterInFile(chs, k) ==
    LET found == { j \in DOMAIN chs : j > k /\ chs[j].sourceFile = chs[k].sourceFile }
    IN IF found = {} THEN 0 ELSE CHOOSE j \in found : \A m \in found : j <= m

\* endTime, line 463, with videoDuration of line 459
endTime(chs, k, duration) ==
    LET next == NextChapterInFile(chs, k)
    IN IF next # 0 THEN parseFloat(chs[next].start_time)
       ELSE parseFloat(duration[chs[k].sourceFile])

InitEndTime ==
    /\ InitWith(FALSE)
    /\ \E duration \in [Files -> { <<MaxTime>>, <<1, 0>> }] :
         \E chs \in TimedLists(duration) : \E k \in DOMAIN chs :
            call = [op |-> "endTime",
                    in |-> [chapters |-> chs, i |-> k, duration |-> duration],
                    out |-> <<>>]

ComputeEndTime ==
    /\ call.op = "endTime"
    /\ call.out = <<>>
    /\ call' = [call EXCEPT !.out = <<endTime(call.in.chapters, call.in.i,
                                              call.in.duration)>>]
    /\ UNCHANGED controller

SpecEndTime == InitEndTime /\ [][ComputeEndTime]_vars


\* Versioning (lines 437-448) in one destination directory, for one base
\* name.  A file name is told from the others by its version string, a
\* sequence of digits.
MaxVersion == 3     \* versions whose files may exist at the start
VersionWidth == 3   \* padStart(3, '0')

\* String(version), for the versions met here
RECURSIVE String(_)
String(n) == IF n < 10 THEN <<n>> ELSE Append(String(n \div 10), n % 10)

\* str.padStart(len, '0')
RECURSIVE padStart(_, _)
padStart(str, len) == IF Len(str) >= len THEN str ELSE padStart(<<0>> \o str, len)

\* versionString without the 'v', line 440
versionString(version) == padStart(String(version), VersionWidth)

\* Names that may be in the directory at the start: versioned files, and
\* files somebody named without the padding.
VersionedNames == { versionString(n) : n \in 1..MaxVersion }
UnpaddedNames == { String(n) : n \in 1..MaxVersion }

\* version = number of files of the base name + 1
versionByCount(dir) == Cardinality(dir) + 1

RECURSIVE versionFrom(_, _)
versionFrom(dir, version) ==
    IF versionString(version) \notin dir THEN version
    ELSE versionFrom(dir, version + 1)

\* The versioning loop, lines 438-447: dir is what fs.existsSync sees.
resolveVersion(dir) == versionFrom(dir, 1)

InitVersioning ==
    /\ InitWith(FALSE)
    /\ \E dir \in SUBSET (VersionedNames \cup UnpaddedNames) :
         call = [op |-> "versioning", dir |-> dir, version |-> 0, prev |-> 0,
                 between |-> "nothing", since |-> "nothing"]

\* One pass of the loop through lines 437-448 for the base name.
\* prev and between keep the version of the resolution before and what
\* happened to the directory between the two.
Resolve ==
    /\ call.op = "versioning"
    /\ call' = [call EXCEPT !.version = resolveVersion(call.dir),
                            !.prev = call.version,
                            !.between = call.since,
                            !.since = "nothing"]
    /\ UNCHANGED controller

\* ffmpeg creates the output file of the version resolved last (line 646).
Create ==
    /\ call.op = "versioning"
    /\ call.version # 0
    /\ call.version <= MaxVersion
    /\ call.since = "nothing"
    /\ call' = [call EXCEPT !.dir = call.dir \cup {versionString(call.version)},
                            !.since = "created"]
    /\ UNCHANGED controller

\* Somebody deletes a file of the directory.
Delete(name) ==
    /\ call.op = "versioning"
    /\ name \in call.dir
    /\ call' = [call EXCEPT !.dir = call.dir \ {name}, !.since = "other"]
    /\ UNCHANGED controller

NextVersioning ==
    \/ Resolve
    \/ Create
    \/ \E name \in VersionedNames \cup UnpaddedNames : Delete(name)

SpecVersioning == InitVersioning /\ [][NextVersioning]_vars


\* Analysis: ipcMain.on('analyze-videos'), lines 284-320.
MaxFiles == 3           \* files in one analysis request
MaxFileChapters == 2    \* chapters ffprobe finds in one file

\* What ffprobe does for one file: it exits with code 0 and lists some
\* chapters, or it fails (non-zero exit or output that is not JSON).
ProbeResults ==
    [ok : {TRUE}, chapters : 0..MaxFileChapters] \cup [ok : {FALSE}, chapters : {0}]

\* chaptersWithContext, lines 301-307: the chapters of the file at position
\* f of the request, each with its file and its index in the file.
chaptersWithContext(f, n) == [k \in 1..n |-> [file |-> f, index |-> k]]

InitAnalysis ==
    /\ InitWith(FALSE)
    /\ \E probes \in UNION { [1..n -> ProbeResults] : n \in 1..MaxFiles } :
         call = [op |-> "analyze", filePaths |-> probes, pc |-> "start", at |-> 1,
                 allChapters |-> <<>>, sent |-> <<>>]

\* The handler up to the first await (lines 284-300).
AnalyzeVideos(ffprobeExists) ==
    /\ call.op = "analyze"
    /\ call.pc = "start"
    /\ call' = IF ffprobeExists
               THEN [call EXCEPT !.pc = "getChapters"]
               ELSE [call EXCEPT !.pc = "done",
                                 !.sent = <<[name |-> "processing-error",
                                             chapters |-> <<>>]>>]
    /\ UNCHANGED controller

\* close of the ffprobe child of getChapters (lines 534-542) for the file
\* at position call.at, and the handler up to the next await or its end
\* (lines 301-319).
getChaptersClose ==
    /\ call.op = "analyze"
    /\ call.pc = "getChapters"
    /\ LET probe == call.filePaths[call.at]
           all == call.allChapters \o chaptersWithContext(call.at, probe.chapters)
       IN call' =
            IF ~probe.ok
            THEN [call EXCEPT !.pc = "done",
                              !.sent = call.sent \o
                                       <<[name |-> "processing-error", chapters |-> <<>>],
                                         [name |-> "analyze-complete", chapters |-> <<>>]>>]
            ELSE IF call.at < Len(call.filePaths)
            THEN [call EXCEPT !.allChapters = all, !.at = call.at + 1]
            ELSE [call EXCEPT !.allChapters = all, !.pc = "done",
                              !.sent = call.sent \o
                                       <<[name |-> "analyze-complete",
                                          chapters |-> all]>>]
    /\ UNCHANGED controller

NextAnalysis ==
    \/ \E ffprobeExists \in BOOLEAN : AnalyzeVideos(ffprobeExists)
    \/ getChaptersClose

SpecAnalysis == InitAnalysis /\ [][NextAnalysis]_vars


\* Verification of the result (lines 651-664) on what getVideoInfo parsed
\* from ffprobe's output for the new clip.
MaxStreams == 2     \* streams listed for the new clip

\* r_frame_rate strings "num/den" as <<num, den>>; <<>> when the stream
\* has no r_frame_rate.
FrameRates == { <<>>, <<25, 1>>, <<25, 2>> }

ClipStreams ==
    [codec_type : {"video"}, r_frame_rate : FrameRates]
        \cup [codec_type : {"audio"}, r_frame_rate : {<<>>}]

\* format: absent, or present with a duration string (<<>>: no duration);
\* streams: absent, or a list.
ClipInfos ==
    [format : [present : {TRUE}, duration : {<<>>, <<2>>, <<0, 3>>}]
                  \cup [present : {FALSE}, duration : {<<>>}],
     streams : [present : {TRUE},
                list : UNION { [1..n -> ClipStreams] : n \in 0..MaxStreams }]
                   \cup [present : {FALSE}, list : {<<>>}]]

\* list.find(s => s.codec_type === 'video'): the position found, 0 for
\* undefined.
findVideoStream(list) ==
    LET found == { n \in DOMAIN list : list[n].codec_type = "video" }
    IN IF found = {} THEN 0 ELSE CHOOSE n \in found : \A m \in found : n <= m

\* Math.round(num / den) for num >= 0, den > 0
round(num, den) == (2 * num + den) \div (2 * den)

\* Lines 652-664.  Reading .streams.find of an info without streams throws
\* a TypeError (line 652), before the test of line 654.
verifyResult(info) ==
    IF ~info.streams.present
    THEN [completion |-> "failed", durationSeconds |-> 0, durationFrames |-> 0]
    ELSE LET v == findVideoStream(info.streams.list)
         IN IF \/ ~info.format.present
               \/ info.format.duration = <<>>
               \/ v = 0
               \/ info.streams.list[v].r_frame_rate = <<>>
            THEN [completion |-> "return", durationSeconds |-> 0, durationFrames |-> 0]
            ELSE LET d == parseFloat(info.format.duration)
                     rate == info.streams.list[v].r_frame_rate
                 IN [completion |-> "return",
                     durationSeconds |-> round(d, 1),
                     durationFrames |-> round(d * rate[1], rate[2])]

InitVerify ==
    /\ InitWith(FALSE)
    /\ \E info \in ClipInfos, shouldStop \in BOOLEAN :
         call = [op |-> "verify", in |-> [info |-> info, shouldStop |-> shouldStop],
                 out |-> <<>>]

\* The re-probe of the new clip has closed with code 0: the verification,
\* then the chapter-update of lines 470-476 or of the catch block.
Verify ==
    /\ call.op = "verify"
    /\ call.out = <<>>
    /\ LET v == verifyResult(call.in.info)
           o == Outcome(v.completion, call.in.shouldStop)
       IN call' = [call EXCEPT !.out = <<[status |-> o.status,
                                         durationSeconds |-> v.durationSeconds,
                                         durationFrames |-> v.durationFrames]>>]
    /\ UNCHANGED controller

SpecVerify == InitVerify /\ [][Verify]_vars


\* The output file of one chapter over the attempts of one run, in its
\* destination directory (lines 437-448, 478-483, 646-648).
MaxPauses == 2      \* attempts of the chapter interrupted by pause

InitOutput ==
    /\ InitWith(FALSE)
    /\ \E dir \in SUBSET VersionedNames :
         call = [op |-> "output", dir |-> dir, made |-> {}, version |-> 0,
                 stage |-> "loop", pauses |-> 0]

\* The loop comes to the chapter (lines 414-455): the version is resolved
\* against the directory, the Processing update is sent and the attempt
\* starts with its still frames (lines 572-574).
AttemptStart ==
    /\ call.op = "output"
    /\ call.stage = "loop"
    /\ call' = [call EXCEPT !.version = resolveVersion(call.dir),
                            !.stage = "stills"]
    /\ UNCHANGED controller

\* Both still frames are there: ffmpeg is spawned with '-y', outputFilePath
\* (lines 646-648).
TranscodeSpawn ==
    /\ call.op = "output"
    /\ call.stage = "stills"
    /\ call' = [call EXCEPT !.stage = "transcode"]
    /\ UNCHANGED controller

\* The transcoding ffmpeg opens its output file and writes to it.
OutputOpened ==
    /\ call.op = "output"
    /\ call.stage = "transcode"
    /\ call' = [call EXCEPT !.dir = call.dir \cup {versionString(call.version)},
                            !.made = call.made \cup {versionString(call.version)}]
    /\ UNCHANGED controller

\* pause kills the child of the attempt (lines 347-351, 335), its close
\* rejects with 'paused' (line 732), the finally block removes the three
\* temporary files (lines 666-679) and the catch block steps back to the
\* same chapter (lines 479-483); after resume the loop comes to it again.
PausedAttempt ==
    /\ call.op = "output"
    /\ call.stage \in {"stills", "transcode"}
    /\ call.pauses < MaxPauses
    /\ call' = [call EXCEPT !.stage = "loop", !.pauses = call.pauses + 1]
    /\ UNCHANGED controller

\* The transcoding ffmpeg exits with code 0 after writing the file.
TranscodeClose ==
    /\ call.op = "output"
    /\ call.stage = "transcode"
    /\ versionString(call.version) \in call.made
    /\ call' = [call EXCEPT !.stage = "done"]
    /\ UNCHANGED controller

NextOutput ==
    \/ AttemptStart
    \/ TranscodeSpawn
    \/ OutputOpened
    \/ PausedAttempt
    \/ TranscodeClose

SpecOutput == InitOutput /\ [][NextOutput]_vars


\* Where a chapter is written and under which name: the sheet row of its
\* id (lines 196-203), the renderer's enrichment (part_005, lines 221-235)
\* and the directory and base name of the loop (lines 417-437).  A string
\* is the sequence of its characters; the two literals below, and the
\* value of a field that is not there, are told from every other string by
\* their single element.
UNKNOWN_PATH == <<"UNKNOWN_PATH">>
UNKNOWN_GUIDE_NAME == <<"UNKNOWN_GUIDE_NAME">>
undefined == <<"undefined">>

\* a || b for strings
Or(a, b) == IF a = <<>> THEN b ELSE a

\* str.trim()
RECURSIVE trim(_)
trim(str) ==
    IF str = <<>> THEN str
    ELSE IF Head(str) = " " THEN trim(Tail(str))
    ELSE IF str[Len(str)] = " " THEN trim(SubSeq(str, 1, Len(str) - 1))
    ELSE str

\* str.toUpperCase(), for the letters met here
Upper(ch) ==
    CASE ch = "a" -> "A" [] ch = "b" -> "B" [] ch = "d" -> "D" [] ch = "g" -> "G"
      [] ch = "m" -> "M" [] ch = "p" -> "P" [] ch = "q" -> "Q" [] ch = "t" -> "T"
      [] ch = "u" -> "U" [] OTHER -> ch

toUpperCase(str) == [n \in DOMAIN str |-> Upper(str[n])]

\* chapter.path.replace(/[:*?"<>|]/g, ''), line 419
sanitizedPath(str) ==
    SelectSeq(str, LAMBDA ch : ch \notin {":", "*", "?", "\"", "<", ">", "|"})

\* chapter.title.replace(/[ /\\?%*:|"<>]/g, '_'), line 437
baseClipName(title) ==
    [n \in DOMAIN title |->
        IF title[n] \in {" ", "/", "\\", "?", "%", "*", ":", "|", "\"", "<", ">"}
        THEN "_" ELSE title[n]]

\* Position of the last ch in str (0 if none).
LastIndexOf(str, ch) ==
    LET P == { n \in DOMAIN str : str[n] = ch }
    IN IF P = {} THEN 0 ELSE CHOOSE n \in P : \A m \in P : m <= n

\* path.basename(file, path.extname(file)), line 423
basename(file) ==
    LET name == SubSeq(file, LastIndexOf(file, "/") + 1, Len(file))
        dot == LastIndexOf(name, ".")
    IN IF dot <= 1 THEN name ELSE SubSeq(name, 1, dot - 1)

\* Cells of a sheet row as line 187 leaves them (quotes stripped, trimmed).
GuideCells == {<<>>, <<"g">>}
PathCells == {<<>>, <<"p">>, <<"p", ":", "q">>}
NoRow == [found |-> FALSE, guideName |-> <<>>, path |-> <<>>]
SheetRows == {NoRow} \cup [found : {TRUE}, guideName : GuideCells, path : PathCells]

\* shotDataMap[id] for the row of the id, lines 196-203
shotData(row) ==
    [guideName |-> Or(row.guideName, UNKNOWN_GUIDE_NAME),
     path |-> Or(row.path, UNKNOWN_PATH)]

RawTitles == {<<"t">>, <<"t", " ", "u">>}
SourceFiles == {<<"a", ".", "m">>, <<"d", "/", "b", ".", "m">>}

\* A chapter as analyze-videos sends it (lines 301-307): it has no path.
Analysed(title, file) ==
    [title |-> title, sourceFile |-> file, path |-> undefined,
     originalTitle |-> undefined]

\* The forEach of onAnalyzeComplete, part_005 lines 221-235
enrich(chapter, row) ==
    IF row.found
    THEN [chapter EXCEPT !.title = shotData(row).guideName,
                         !.path = shotData(row).path,
                         !.originalTitle = chapter.title]
    ELSE [chapter EXCEPT !.originalTitle = chapter.title]

\* The test of line 418
validPath(p) == p # undefined /\ p # <<>> /\ p # UNKNOWN_PATH /\ trim(p) # <<>>

\* chapterOutputDir, lines 417-425, as the list of its parts under baseDir
chapterOutputDir(chapter) ==
    IF validPath(chapter.path)
    THEN <<toUpperCase(sanitizedPath(chapter.path))>>
    ELSE <<toUpperCase(<<"_", "U", "N", "M", "A", "T", "C", "H", "E", "D">>),
           toUpperCase(basename(chapter.sourceFile))>>

InitRouting ==
    /\ InitWith(FALSE)
    /\ \E title \in RawTitles, file \in SourceFiles, row \in SheetRows :
         call = [op |-> "routing", raw |-> title, row |-> row,
                 chapter |-> Analysed(title, file), stage |-> "analysed",
                 dir |-> <<>>, base |-> <<>>]

\* onAnalyzeComplete with the sheet data fetched (part_005, lines 216-235)
Enrich ==
    /\ call.op = "routing"
    /\ call.stage = "analysed"
    /\ call' = [call EXCEPT !.chapter = enrich(call.chapter, call.row),
                            !.stage = "listed"]
    /\ UNCHANGED controller

\* onAnalyzeComplete when fetchSheetData rejects (part_005, lines 237-240):
\* the chapters stay as analysed.
EnrichFails ==
    /\ call.op = "routing"
    /\ call.stage = "analysed"
    /\ call' = [call EXCEPT !.stage = "listed"]
    /\ UNCHANGED controller

\* The loop of process-videos comes to the submitted chapter (lines
\* 414-455): directory, base name, Processing update.
Route ==
    /\ call.op = "routing"
    /\ call.stage = "listed"
    /\ call' = [call EXCEPT !.dir = chapterOutputDir(call.chapter),
                            !.base = baseClipName(call.chapter.title),
                            !.stage = "processing"]
    /\ UNCHANGED controller

NextRouting ==
    \/ Enrich
    \/ EnrichFails
    \/ Route

SpecRouting == InitRouting /\ [][NextRouting]_vars


\* The time ranges processSingleChapter hands to ffmpeg (lines 546-617) for
\* the chapter the loop is at (lines 458-466).  A number of seconds is a
\* fraction <<n, d>> with d > 0.
MaxFilterChapters == 2  \* chapters in a list whose filter is built
timebase == 1000000

QLess(a, b) == a[1] * b[2] < b[1] * a[2]
QEq(a, b) == a[1] * b[2] = b[1] * a[2]
QAdd(a, b) == <<a[1] * b[2] + b[1] * a[2], a[2] * b[2]>>
QSub(a, b) == <<a[1] * b[2] - b[1] * a[2], a[2] * b[2]>>
QMul(a, b) == <<a[1] * b[1], a[2] * b[2]>>
QMax(a, b) == IF QLess(a, b) THEN b ELSE a
QMin(a, b) == IF QLess(b, a) THEN b ELSE a
Q(n) == <<n, 1>>

\* start_time as ffprobe writes it: an optional sign and digits.
StartTimes ==
    [neg : {FALSE}, digits : { <<d>> : d \in 0..MaxTime }]
        \cup [neg : {TRUE}, digits : {<<1>>}]

\* parseFloat of a signed string of digits
parseSigned(str) == IF str.neg THEN 0 - parseFloat(str.digits) ELSE parseFloat(str.digits)

FilterChapters == [sourceFile : Files, start_time : StartTimes]

\* Frame rates of the source's video stream, "num/den" as <<num, den>>.
SourceRates == { <<25, 1>>, <<30, 1>>, <<15, 2>>, <<3, 1>> }

\* startTime and endTime of chapter k, lines 459-463
chapterTimes(chs, k, videoDuration) ==
    LET next == NextChapterInFile(chs, k)
    IN [startTime |-> parseSigned(chs[k].start_time),
        endTime |-> IF next # 0 THEN parseSigned(chs[next].start_time)
                    ELSE parseFloat(videoDuration)]

\* eval(r_frame_rate) and 1 / frameRate, lines 561-562
frameDuration(rate) == <<rate[2], rate[1]>>

\* The handle of nine frame durations (the stills are looped with loop=9).
nineFramesDuration(rate) == QMul(Q(9), frameDuration(rate))

\* tenFramesDuration, line 563
tenFramesDuration(rate) == QMul(Q(10), frameDuration(rate))

\* Math.max(0, time) of createStillFrame, line 683
seekTime(time) == QMax(Q(0), time)

\* The audio prefix with first-in-file decided by the position of the
\* chapter among the chapters of its file.
audioPrefixByPosition(chs, k, startTime, rate) ==
    IF \A j \in DOMAIN chs : j < k => chs[j].sourceFile # chs[k].sourceFile
    THEN [kind |-> "anullsrc", start |-> Q(0), end |-> tenFramesDuration(rate)]
    ELSE [kind |-> "atrim",
          start |-> QMax(Q(0), QSub(Q(startTime), tenFramesDuration(rate))),
          end |-> Q(startTime)]

\* [pre_a], lines 597-603: silence of the handle's length, or the audio
\* before the chapter.
audioPrefix(chs, k, startTime, rate) ==
    IF QLess(Q(startTime), tenFramesDuration(rate))
    THEN [kind |-> "anullsrc", start |-> Q(0), end |-> tenFramesDuration(rate)]
    ELSE [kind |-> "atrim",
          start |-> QMax(Q(0), QSub(Q(startTime), tenFramesDuration(rate))),
          end |-> Q(startTime)]

\* audioSuffix without the Math.min of line 611: the trim runs past the end
\* of the file.
audioSuffixUnclamped(endT, videoDuration, rate) ==
    IF QLess(QSub(Q(videoDuration), frameDuration(rate)), Q(endT))
    THEN [kind |-> "anullsrc", start |-> Q(0), end |-> tenFramesDuration(rate)]
    ELSE [kind |-> "atrim", start |-> Q(endT),
          end |-> QAdd(Q(endT), tenFramesDuration(rate))]

\* [suf_a], lines 607-614
audioSuffix(endT, videoDuration, rate) ==
    IF QLess(QSub(Q(videoDuration), frameDuration(rate)), Q(endT))
    THEN [kind |-> "anullsrc", start |-> Q(0), end |-> tenFramesDuration(rate)]
    ELSE [kind |-> "atrim", start |-> Q(endT),
          end |-> QMin(Q(videoDuration), QAdd(Q(endT), tenFramesDuration(rate)))]

\* Math.round(q) of a fraction
MathRound(q) == round(q[1], q[2])

\* What processSingleChapter builds for chapter k of chs: the seek times of
\* the two stills (572-574, 683), START and END of the metadata chapter
\* (576-580), the video trim (584-590) and the audio parts (593-615).
filterOf(chs, k, videoDuration, rate, hasAudio) ==
    LET t == chapterTimes(chs, k, videoDuration)
        s == Q(t.startTime)
        e == Q(t.endTime)
        h == tenFramesDuration(rate)
        end1 == QMax(s, QSub(e, frameDuration(rate)))
    IN [startTime |-> t.startTime,
        endTime |-> t.endTime,
        handle |-> h,
        prefixSeek |-> seekTime(s),
        suffixSeek |-> seekTime(end1),
        START |-> MathRound(QMul(h, Q(timebase))),
        END |-> MathRound(QMul(QAdd(h, QSub(e, s)), Q(timebase))),
        video |-> [start |-> s, end |-> end1],
        audio |-> IF hasAudio
                  THEN <<audioPrefix(chs, k, t.startTime, rate),
                         [kind |-> "atrim", start |-> s, end |-> e],
                         audioSuffix(t.endTime, parseFloat(videoDuration), rate)>>
                  ELSE <<>>]

InitFilter ==
    /\ InitWith(FALSE)
    /\ \E chs \in UNION { [1..n -> FilterChapters] : n \in 1..MaxFilterChapters } :
         \E k \in DOMAIN chs, videoDuration \in { <<2>>, <<MaxTime>> },
            rate \in SourceRates, hasAudio \in BOOLEAN :
            call = [op |-> "filter",
                    in |-> [chapters |-> chs, i |-> k, videoDuration |-> videoDuration,
                            rate |-> rate, hasAudio |-> hasAudio],
                    out |-> <<>>]

\* The loop calls processSingleChapter for chapter i (line 466), which gets
\* as far as the transcode invocation (line 648).
BuildFilter ==
    /\ call.op = "filter"
    /\ call.out = <<>>
    /\ call' = [call EXCEPT !.out = <<filterOf(call.in.chapters, call.in.i,
                                               call.in.videoDuration, call.in.rate,
                                               call.in.hasAudio)>>]
    /\ UNCHANGED controller

SpecFilter == InitFilter /\ [][BuildFilter]_vars


\* The chapter ids of an analysis (main.js, lines 296-309) in the renderer's
\* lists (part_005): file paths and ids are sequences of characters; x
\* and y stand for file names such as x.mov.
DroppedPaths ==
    { <<"/", "a", "/", "x">>, <<"/", "b", "/", "x">>, <<"/", "a", "/", "y">> }

\* What one drop or one file dialog hands to addFiles.
Drops == { <<p>> : p \in DroppedPaths } \cup
         { <<d[1], d[2]>> : d \in { e \in DroppedPaths \X DroppedPaths : e[1] # e[2] } }

\* path.basename(filePath), line 302
fileName(filePath) == SubSeq(filePath, LastIndexOf(filePath, "/") + 1, Len(filePath))

\* `${i}` of an index, in decimal
RECURSIVE indexString(_)
indexString(n) ==
    LET digit == <<"0", "1", "2", "3", "4", "5", "6", "7", "8", "9">>[(n % 10) + 1]
    IN IF n < 10 THEN <<digit>> ELSE Append(indexString(n \div 10), digit)

\* `ch-${path.basename(filePath)}-${i}`, line 302
chapterId(filePath, index) ==
    <<"c", "h", "-">> \o fileName(filePath) \o <<"-">> \o indexString(index)

\* chapters.map of lines 301-307 for a file with n chapters (index from 0)
chaptersWithIds(filePath, n) ==
    [k \in 1..n |-> [id |-> chapterId(filePath, k - 1), sourceFile |-> filePath]]

\* The forEach of addFiles, lines 81-85
RECURSIVE pushNew(_, _)
pushNew(paths, newFilePaths) ==
    IF newFilePaths = <<>> THEN paths
    ELSE pushNew(IF \E n \in DOMAIN paths : paths[n] = Head(newFilePaths)
                 THEN paths
                 ELSE Append(paths, Head(newFilePaths)),
                 Tail(newFilePaths))

\* chapters.find(c => c.id === chapterId), line 384: the position of the
\* first chapter with the id (0 if there is none).
find(chs, id) ==
    LET P == { n \in DOMAIN chs : chs[n].id = id }
    IN IF P = {} THEN 0 ELSE CHOOSE n \in P : \A m \in P : n <= m

InitIds ==
    /\ InitWith(FALSE)
    /\ call = [op |-> "ids", filePaths |-> <<>>, chapters |-> <<>>, pc |-> "idle",
               request |-> <<>>, at |-> 0, allChapters |-> <<>>,
               update |-> [sent |-> 0, found |-> 0]]

\* addFiles, part_005 lines 80-89
addFiles(newFilePaths) ==
    /\ call.op = "ids"
    /\ call' = [call EXCEPT !.filePaths = pushNew(call.filePaths, newFilePaths),
                            !.chapters = <<>>,
                            !.update = [sent |-> 0, found |-> 0]]
    /\ UNCHANGED controller

\* analyzeBtn click (part_005 lines 134-143): the button is disabled until
\* the analysis is over; the main process takes the list (main.js 284-297).
analyzeBtnClick ==
    /\ call.op = "ids"
    /\ call.pc = "idle"
    /\ Len(call.filePaths) > 0
    /\ call' = [call EXCEPT !.pc = "getChapters", !.request = call.filePaths,
                            !.at = 1, !.allChapters = <<>>]
    /\ UNCHANGED controller

\* close of the ffprobe child of getChapters for the file at position
\* call.at, which lists n chapters or fails, and the handler up to its next
\* await (main.js 298-319); analyze-complete replaces the renderer's
\* chapters (part_005 199-209).
getChaptersCloseIds(ok, n) ==
    /\ call.op = "ids"
    /\ call.pc = "getChapters"
    /\ LET all == call.allChapters \o chaptersWithIds(call.request[call.at], n)
       IN call' =
            IF ~ok
            THEN [call EXCEPT !.pc = "idle", !.chapters = <<>>,
                              !.update = [sent |-> 0, found |-> 0]]
            ELSE IF call.at < Len(call.request)
            THEN [call EXCEPT !.allChapters = all, !.at = call.at + 1]
            ELSE [call EXCEPT !.allChapters = all, !.pc = "idle", !.chapters = all,
                              !.update = [sent |-> 0, found |-> 0]]
    /\ UNCHANGED controller

\* onChapterUpdate (part_005 lines 381-385) for an update the main process
\* sends about the chapter at position k of the list (main.js 450-455: its
\* chapterId is that chapter's id).
onChapterUpdate(k) ==
    /\ call.op = "ids"
    /\ k \in DOMAIN call.chapters
    /\ call' = [call EXCEPT !.update = [sent |-> k,
                                       found |-> find(call.chapters, call.chapters[k].id)]]
    /\ UNCHANGED controller

NextIds ==
    \/ \E newFilePaths \in Drops : addFiles(newFilePaths)
    \/ analyzeBtnClick
    \/ \E ok \in BOOLEAN, n \in 0..MaxFileChapters : getChaptersCloseIds(ok, n)
    \/ \E k \in 1..(MaxFiles * MaxFileChapters) : onChapterUpdate(k)

SpecIds == InitIds /\ [][NextIds]_vars


\* killFfmpeg on the two kinds of platform (lines 322-343) and the ffmpeg
\* children it is called on (lines 712-745).
MaxChildren == 2    \* ffmpeg children spawned
MaxKills == 3       \* pause and stop commands received

Platforms == {"win32", "linux"}

\* killFfmpeg without the try/catch of lines 334-339: a failed group kill
\* throws out of killFfmpeg, before line 342.
killFfmpegUncaught(platform, handle, groupFails) ==
    IF handle = 0
    THEN [signals |-> <<>>, handle |-> 0, threw |-> FALSE]
    ELSE IF platform = "win32"
    THEN [signals |-> <<"taskkill">>, handle |-> 0, threw |-> FALSE]
    ELSE IF groupFails
    THEN [signals |-> <<"group">>, handle |-> handle, threw |-> TRUE]
    ELSE [signals |-> <<"group">>, handle |-> 0, threw |-> FALSE]

\* killFfmpeg, lines 322-343, for the tracked handle (0 if none): the kills
\* it attempts in order, the handle it leaves and whether it throws.
\* groupFails: process.kill(-pid, 'SIGKILL') throws.
killFfmpegOn(platform, handle, groupFails) ==
    IF handle = 0
    THEN [signals |-> <<>>, handle |-> 0, threw |-> FALSE]
    ELSE IF platform = "win32"
    THEN [signals |-> <<"taskkill">>, handle |-> 0, threw |-> FALSE]
    ELSE IF groupFails
    THEN [signals |-> <<"group", "single">>, handle |-> 0, threw |-> FALSE]
    ELSE [signals |-> <<"group">>, handle |-> 0, threw |-> FALSE]

InitKill ==
    /\ InitWith(FALSE)
    /\ \E platform \in Platforms :
         call = [op |-> "kill", platform |-> platform, children |-> <<>>,
                 handle |-> 0, kills |-> 0, reason |-> "none", groupFailed |-> FALSE,
                 signals |-> <<>>, threw |-> FALSE]

\* runFfmpeg up to the return of its promise (lines 712-716).  The loop
\* awaits the close of one child before it spawns the next.
Spawn ==
    /\ call.op = "kill"
    /\ Len(call.children) < MaxChildren
    /\ \A k \in DOMAIN call.children : call.children[k].status = "exited"
    /\ call' = [call EXCEPT
                  !.children = Append(call.children,
                                      [status |-> "live",
                                       detached |-> call.platform # "win32"]),
                  !.handle = Len(call.children) + 1]
    /\ UNCHANGED controller

\* 'pause' or 'stop' received (lines 348-350, 356-359): killFfmpeg(reason).
\* The child keeps the last signal sent to it.
Kill(reason, groupFails) ==
    /\ call.op = "kill"
    /\ call.kills < MaxKills
    /\ LET o == killFfmpegOn(call.platform, call.handle, groupFails)
       IN call' = [call EXCEPT
                     !.kills = call.kills + 1,
                     !.reason = reason,
                     !.groupFailed = call.handle # 0 /\ call.platform # "win32" /\ groupFails,
                     !.signals = o.signals,
                     !.threw = o.threw,
                     !.handle = o.handle,
                     !.children = [k \in DOMAIN call.children |->
                                     IF k = call.handle /\ ~o.threw
                                     THEN [call.children[k] EXCEPT
                                             !.status = o.signals[Len(o.signals)]]
                                     ELSE call.children[k]]]
    /\ UNCHANGED controller

\* close of child k (lines 726-727)
Close(k) ==
    /\ call.op = "kill"
    /\ k \in DOMAIN call.children
    /\ call.children[k].status # "exited"
    /\ call' = [call EXCEPT !.children[k].status = "exited", !.handle = 0]
    /\ UNCHANGED controller

NextKill ==
    \/ Spawn
    \/ \E reason \in {"pause", "stop"}, groupFails \in BOOLEAN : Kill(reason, groupFails)
    \/ \E k \in 1..MaxChildren : Close(k)

SpecKill == InitKill /\ [][NextKill]_vars


\* ---------------------------------------------------------------- properties
Last(l) == l[Len(l)]

\* positions of log[r] that are chapter-update messages
Updates(r) == { p \in DOMAIN log[r] : log[r][p].k # 0 }

\* positions of log[r] that are run-level signals
Signals(r) == { p \in DOMAIN log[r] : log[r][p].k = 0 }

Count(r, k, s) ==
    Cardinality({ p \in DOMAIN log[r] : log[r][p].k = k /\ log[r][p].s = s })

\* What follows in log[r] when the loop goes on to the chapter after k:
\* the next chapter's first message, or processing-complete after the last.
GoesOnAfter(r, p, k) ==
    /\ p < Len(log[r])
    /\ IF k < Len(chapters[r])
       THEN /\ log[r][p + 1].k = k + 1
            /\ log[r][p + 1].s \in {"Processing", "Error"}
       ELSE log[r][p + 1] = Entry(0, "processing-complete", "")

\* A live ffmpeg child of invocation r works on the chapter at the loop
\* position, and that chapter's Processing is the last message r sent.
ChildIsOfAnnounced(r) ==
    proc[r] # "none" =>
        /\ pc[r] \in Stages
        /\ log[r] # <<>>
        /\ Last(log[r]) = Entry(i[r], "Processing", "")

\* C1: at most one ffmpeg child spawned by runFfmpeg is live (spawned and
\* its exit not yet delivered) at any moment.
C1_AtMostOneLive == Cardinality({ r \in Slots : proc[r] # "none" }) <= 1

\* C2: an attempt interrupted by pause is reported Paused and the same
\* chapter is attempted again (unless stop is issued); no chapter is
\* passed over because of the pause and none is completed twice.
C2_PauseRetriesSameChapter ==
    \A r \in Slots : \A p \in DOMAIN log[r] :
        LET e == log[r][p] IN
        /\ (e.c = "kill:pause" /\ ~stopIssued[r]) => e.s = "Paused"
        /\ (e.s = "Paused" /\ p < Len(log[r])) => log[r][p + 1].k \in {0, e.k}
        /\ (e.s = "Done") => Count(r, e.k, "Done") = 1

\* C3: when stop was issued while chapter k was in flight and the run has
\* ended, chapter k has exactly one Stopped and no chapter after k has any
\* chapter-update.
C3_StopReportsStopped ==
    \A r \in Slots :
        (pc[r] = "done" /\ stopAt[r] > 0) =>
            /\ Count(r, stopAt[r], "Stopped") = 1
            /\ \A p \in Updates(r) : log[r][p].k <= stopAt[r]

\* A run during which stop was issued does not send processing-complete.
C4_NeverCompleteAfterStop ==
    \A r \in Slots :
        stopIssued[r] => \A p \in DOMAIN log[r] : log[r][p].s # "processing-complete"

\* C4: a run during which stop was issued ends with processing-stopped and
\* never sends processing-complete.
C4_StopEndsStopped ==
    /\ C4_NeverCompleteAfterStop
    /\ \A r \in Slots :
          (pc[r] = "done" /\ stopIssued[r]) => Last(log[r]).s = "processing-stopped"

\* C5: a 'process-videos' request received while a run is in progress
\* starts no loop and leaves isPaused and shouldStop as they are.
C5_StartRejectedWhileRunning ==
    [][(started' # started /\ \E r \in Slots : Active(r))
          => /\ \A q \in Slots : pc'[q] \notin {"idle", "done"} => Active(q)
             /\ proc' = proc
             /\ processingState' = processingState]_vars

\* C6: the exit of a child killed by pause or stop is never reported as
\* chapter status Error.
C6_KillNeverError ==
    \A r \in Slots : \A p \in DOMAIN log[r] :
        log[r][p].c \in {"kill:pause", "kill:stop"} => log[r][p].s # "Error"

\* C7: a non-zero exit of a still-frame or transcode child, seen while
\* neither pause nor stop is in effect, gives the chapter Error, the loop
\* goes on with the next chapter, and the run does not end with
\* processing-error (it ends with processing-complete unless stop is issued).
C7_ExitErrorIsPerChapter ==
    \A r \in Slots : \A p \in DOMAIN log[r] :
        (log[r][p].s = "Error" /\ log[r][p].c = "fail") =>
            /\ GoesOnAfter(r, p, log[r][p].k)
            /\ pc[r] = "done" =>
                 /\ Last(log[r]).s \in {"processing-complete", "processing-stopped"}
                 /\ ~stopIssued[r] => Last(log[r]).s = "processing-complete"

C7_Witness ==
    \E r \in Slots : \E p \in DOMAIN log[r] :
        /\ log[r][p] = Entry(1, "Error", "fail")
        /\ p < Len(log[r])
        /\ log[r][p + 1] = Entry(2, "Processing", "")
        /\ Last(log[r]).s = "processing-complete"

\* C8: when mkdirSync fails for chapter k, k gets exactly one Error and no
\* other message from that iteration on, no child is spawned for it (a
\* child is only ever live for a chapter whose Processing was the last
\* message), and the loop goes on with chapter k + 1.
C8_MkdirFailureSkipsChapter ==
    \A r \in Slots :
        /\ ChildIsOfAnnounced(r)
        /\ \A p \in DOMAIN log[r] :
              (log[r][p].s = "Error" /\ log[r][p].c = "mkdir") =>
                  LET k == log[r][p].k IN
                  /\ Count(r, k, "Error") = 1
                  /\ \A q \in DOMAIN log[r] : q > p => log[r][q].k # k
                  /\ p > 1 => log[r][p - 1] # Entry(k, "Processing", "")
                  /\ GoesOnAfter(r, p, k)

C8_Witness ==
    \E r \in Slots : \E p \in DOMAIN log[r] :
        /\ log[r][p] = Entry(1, "Error", "mkdir")
        /\ p < Len(log[r])
        /\ log[r][p + 1] = Entry(2, "Processing", "")
        /\ proc[r] = "live"

\* C9: a run that sent processing-error sent nothing else, has returned,
\* and has no ffmpeg child; while the pre-cache phase lasts nothing is sent
\* and no child is spawned.
C9_PrecacheFailureAborts ==
    \A r \in Slots :
        /\ (\E p \in DOMAIN log[r] : log[r][p].s = "processing-error") =>
              /\ log[r] = <<Entry(0, "processing-error", "")>>
              /\ proc[r] = "none"
              /\ pc[r] = "done"
        /\ pc[r] = "precache" => (log[r] = <<>> /\ proc[r] = "none")

C9_Witness ==
    \E r \in Slots :
        /\ log[r] = <<Entry(0, "processing-error", "")>>
        /\ videoInfos[r]["A"] = "ok"
        /\ chapters[r] = <<"A", "B">>
        /\ pc[r] = "done"

\* C10: an invocation that has returned sent exactly one run-level signal,
\* as the last thing it sent; one that has not returned sent none.
C10_OneTerminalSignal ==
    \A r \in Slots :
        /\ Cardinality(Signals(r)) = (IF pc[r] = "done" THEN 1 ELSE 0)
        /\ \A p \in Signals(r) : p = Len(log[r])
        /\ \A p \in Signals(r) :
              log[r][p].s \in {"processing-complete", "processing-stopped",
                               "processing-error"}

C10_Witness ==
    \E r \in Slots :
        /\ pc[r] = "done"
        /\ Len(log[r]) > 1
        /\ Updates(r) # {}
        /\ Last(log[r]).s = "processing-stopped"

\* C11: within one run the chapter named by successive chapter-updates
\* never goes back in submission order, and a chapter that has received
\* Done, Error or Stopped is not named by any later chapter-update.
C11_UpdatesInSubmissionOrder ==
    \A r \in Slots : \A p \in Updates(r), q \in Updates(r) :
        p < q =>
            /\ log[r][p].k <= log[r][q].k
            /\ log[r][p].s \in {"Done", "Error", "Stopped"} => log[r][p].k < log[r][q].k

C11_Witness ==
    \E r \in Slots :
        /\ Len(log[r]) >= 5
        /\ log[r][1] = Entry(1, "Error", "mkdir")
        /\ log[r][2] = Entry(2, "Processing", "")
        /\ log[r][3].s = "Paused"
        /\ log[r][4] = Entry(2, "Processing", "")
        /\ log[r][5].s = "Done"

\* C14: over a whole run at most one chapter-update of a chapter carries a
\* finalName (the Processing update is the one that carries it).
C14_FinalNameOnce ==
    \A r \in Slots : \A k \in 1..Len(chapters[r]) : Count(r, k, "Processing") <= 1

\* C17: when stop is issued while the loop waits in the pause wait, the
\* next polling step ends the run with processing-stopped (no resume is
\* needed), and that step is taken eventually.
C17_StopUnblocksPausedLoop ==
    /\ [][\A r \in Slots :
            (pc[r] = "pausewait" /\ processingState.shouldStop /\ pc'[r] # "pausewait")
                => (pc'[r] = "done" /\ Last(log'[r]).s = "processing-stopped")]_vars
    /\ \A r \in Slots :
          (pc[r] = "pausewait" /\ processingState.shouldStop)
              ~> (pc[r] = "done" /\ Last(log[r]).s = "processing-stopped")

C17_Witness ==
    \E r \in Slots :
        /\ pc[r] = "done"
        /\ stopAt[r] = 1
        /\ log[r] = << Entry(1, "Processing", ""), Entry(1, "Paused", "kill:pause"),
                       Entry(0, "processing-stopped", "") >>

\* The temporary artifacts the attempt under way has put on disk so far.
OwnArtifacts(r) ==
    IF pc[r] = "prefix" THEN {"prefix"}
    ELSE IF pc[r] = "suffix" THEN {"prefix", "suffix"}
    ELSE IF pc[r] \in {"transcode", "verify"} THEN Artifacts
    ELSE {}

\* C15: when every deletion succeeds, no temporary artifact of an attempt
\* outlasts it: once the attempt has ended (the loop waits in the pause
\* wait, is between attempts, or the run has ended) none of its artifacts
\* exists, whether it ended in Done, Error, Paused or Stopped.
C15_NoArtifactsBetweenAttempts ==
    \A r \in Slots : temps[r] \subseteq OwnArtifacts(r)

C15_Witness ==
    \E r \in Slots :
        /\ pc[r] = "prefix"
        /\ i[r] = 2
        /\ temps[r] = {"prefix"}
        /\ \E p \in DOMAIN log[r] : log[r][p] = Entry(1, "Done", "")
        /\ \E p \in DOMAIN log[r] : log[r][p].s = "Paused" /\ log[r][p].k = 1

\* C16: whichever deletions fail during the cleanup of an attempt, the
\* chapter status reported and the way the loop goes on are those of the
\* attempt's own completion (what they are when every deletion succeeds),
\* never an effect of the failed deletion; every artifact whose deletion
\* does not fail is deleted, so exactly the failing ones stay; and the loop
\* is left only by a stop.
C16_UnlinkFailureIsHarmless ==
    (call.op = "attempt" /\ call.out # <<>>) =>
        LET in == call.in
            out == call.out[1]
            expected == Outcome(in.completion, in.shouldStop)
        IN /\ out.status = expected.status
           /\ out.then = expected.then
           /\ out.temps = in.temps \cap in.throws
           /\ out.then = "break" => out.status = "Stopped"

C16_Witness ==
    /\ call.op = "attempt"
    /\ call.out # <<>>
    /\ call.in.completion = "return"
    /\ call.in.temps = Artifacts
    /\ call.in.throws = {"suffix"}
    /\ call.out[1] = [status |-> "Done", then |-> "next", temps |-> {"suffix"}]

\* C12: the endTime of the chapter at position i is the start time of the
\* first later chapter of the same source file, chapters of other files in
\* between being passed over, and the total duration of its file when no
\* later chapter of that file exists.
C12_EndTimeIsNextStartInFile ==
    (call.op = "endTime" /\ call.out # <<>>) =>
        LET chs == call.in.chapters
            k == call.in.i
            SameFile(j) == j > k /\ chs[j].sourceFile = chs[k].sourceFile
        IN /\ \A j \in DOMAIN chs :
                (SameFile(j) /\ \A m \in DOMAIN chs : SameFile(m) => j <= m) =>
                    call.out[1] = parseFloat(chs[j].start_time)
           /\ (\A j \in DOMAIN chs : ~SameFile(j)) =>
                    call.out[1] = parseFloat(call.in.duration[chs[k].sourceFile])

C12_Witness ==
    /\ call.op = "endTime"
    /\ call.out = <<2>>
    /\ call.in.i = 1
    /\ Len(call.in.chapters) = 3
    /\ call.in.chapters[1] = [sourceFile |-> "A", start_time |-> <<0>>]
    /\ call.in.chapters[2] = [sourceFile |-> "B", start_time |-> <<1>>]
    /\ call.in.chapters[3] = [sourceFile |-> "A", start_time |-> <<0, 2>>]

\* C13: the version resolved is the smallest n >= 1 whose file
\* {base}-v{n padded to 3 digits}.mp4 does not exist at resolution time: the
\* file of the resolved version does not exist and the files of all smaller
\* versions do (gaps are filled first); a second resolution with the
\* directory untouched yields the same version, and one after the file of
\* the resolved version was created yields a higher version.
C13_SmallestFreeVersion ==
    (call.op = "versioning" /\ call.version # 0) =>
        /\ call.version >= 1
        /\ call.since = "nothing" =>
              /\ versionString(call.version) \notin call.dir
              /\ \A n \in 1..(call.version - 1) : versionString(n) \in call.dir
        /\ (call.prev # 0 /\ call.between = "nothing") => call.version = call.prev
        /\ (call.prev # 0 /\ call.between = "created") => call.version > call.prev

C13_Witness ==
    /\ call.op = "versioning"
    /\ call.prev = 1
    /\ call.between = "created"
    /\ call.version = 3
    /\ call.since = "nothing"
    /\ call.dir = {<<0, 0, 1>>, <<0, 0, 2>>, <<1>>}

\* C18: when the analysis of a request has ended and ffprobe was there, the
\* chapters of every file whose probe succeeded are delivered in an
\* analyze-complete message, whether or not the probe of another file of
\* the request failed.
C18_ProbeFailureIsPerFile ==
    (call.op = "analyze" /\ call.pc = "done"
        /\ \E m \in DOMAIN call.sent : call.sent[m].name = "analyze-complete") =>
        \A f \in DOMAIN call.filePaths :
            call.filePaths[f].ok =>
                \A k \in 1..call.filePaths[f].chapters :
                    \E m \in DOMAIN call.sent :
                        /\ call.sent[m].name = "analyze-complete"
                        /\ \E n \in DOMAIN call.sent[m].chapters :
                              call.sent[m].chapters[n] = [file |-> f, index |-> k]

\* The info of the new clip is incomplete: no format, no duration, no
\* streams list, no video stream, or a first video stream without frame
\* rate.
Incomplete(info) ==
    \/ ~info.format.present
    \/ info.format.duration = <<>>
    \/ ~info.streams.present
    \/ \A n \in DOMAIN info.streams.list :
          (/\ info.streams.list[n].codec_type = "video"
           /\ \A m \in 1..(n - 1) : info.streams.list[m].codec_type # "video")
              => info.streams.list[n].r_frame_rate = <<>>

\* C20: after a successful transcode, every incomplete info of the new
\* clip gives the chapter Done with durationSeconds = 0 and
\* durationFrames = 0.
C20_IncompleteInfoIsDoneZero ==
    (call.op = "verify" /\ call.out # <<>> /\ Incomplete(call.in.info)) =>
        call.out[1] = [status |-> "Done", durationSeconds |-> 0, durationFrames |-> 0]

\* C19: over any sequence of analyses and runs a title carries at most one
\* version suffix: the titles submitted with a run are enriched names
\* without a version suffix, so what versioning appends to is never the
\* versioned name of an earlier run.
C19_VersionedNameNeverBase ==
    /\ \A r \in Slots : \A k \in DOMAIN baseTitles[r] : baseTitles[r][k] = 0
    /\ \A k \in DOMAIN rendererChapters : rendererChapters[k].title <= 1

\* C26: killFfmpeg is idempotent.  A 'control-processing' message that
\* finds no tracked handle (none was spawned, the handle was dropped by an
\* earlier kill, or the close/error handler of the exited child dropped it)
\* signals no child and leaves the handle absent; no child that was killed
\* or has exited is signalled again; and after a pause or stop, which call
\* killFfmpeg, the tracked handle is absent.
C26_KillIsIdempotent ==
    [][commands' # commands =>
          /\ currentFfmpegProcess = 0 =>
                (proc' = proc /\ currentFfmpegProcess' = 0)
          /\ \A r \in Slots : proc[r] # "live" => proc'[r] = proc[r]
          /\ (processingState'.isPaused \/ processingState'.shouldStop) =>
                currentFfmpegProcess' = 0]_vars

\* stop after pause: the second killFfmpeg found no handle and the child
\* still carries the first kill.
C26_Witness ==
    \E r \in Slots :
        /\ proc[r] = "kill:pause"
        /\ processingState.shouldStop
        /\ currentFfmpegProcess = 0
        /\ commands = 2

\* A step of invocation r in which runFfmpeg spawns a child (lines 713-716).
Spawns(r) ==
    /\ proc'[r] = "live"
    /\ proc[r] # "live" \/ pc'[r] # pc[r] \/ i'[r] # i[r]

\* C28: every spawn performed by runFfmpeg within a run happens in a state
\* where isPaused is false and shouldStop is false.
C28_NoSpawnWhilePausedOrStopping ==
    [][\A r \in Slots :
          Spawns(r) => (~processingState'.isPaused /\ ~processingState'.shouldStop)]_vars

\* An attempt was interrupted by pause and, after resume, its first child
\* has been spawned again.
C28_Witness ==
    \E r \in Slots :
        /\ pc[r] = "prefix"
        /\ proc[r] = "live"
        /\ Count(r, i[r], "Paused") >= 1
        /\ ~processingState.isPaused
        /\ ~processingState.shouldStop

\* Both a pause and a stop were issued while the ffmpeg child of invocation
\* r is in flight: pause killed it and stop followed, or stop was followed
\* by pause.
PauseAndStop(r) ==
    /\ pc[r] \in Stages
    /\ proc[r] # "none"
    /\ processingState.shouldStop
    /\ proc[r] = "kill:pause" \/ processingState.isPaused

\* C29: if both a pause and a stop have been issued, in either order,
\* before the exit of the in-flight ffmpeg child is observed, then the step
\* that observes the exit reports the chapter Stopped (not Paused), does not
\* retry it, and ends the run with processing-stopped.
C29_PauseAndStopReportStopped ==
    [][\A r \in Slots :
          (PauseAndStop(r) /\ proc'[r] = "none") =>
              /\ pc'[r] = "done"
              /\ Len(log'[r]) = Len(log[r]) + 2
              /\ log'[r][Len(log[r]) + 1].k = i[r]
              /\ log'[r][Len(log[r]) + 1].s = "Stopped"
              /\ Last(log'[r]).s = "processing-stopped"]_vars

\* The run ended with Stopped for a chapter whose child had been killed by
\* pause: stop came after the pause and before the exit was observed.
C29_Witness ==
    \E r \in Slots : \E p \in Updates(r) :
        /\ pc[r] = "done"
        /\ log[r][p].s = "Stopped"
        /\ log[r][p].c = "kill:pause"
        /\ Last(log[r]).s = "processing-stopped"

\* C30: in a run each source file is probed at most once, one probe at a
\* time: a step caches the info of at most one file, only in the pre-cache
\* phase and only for a file that has none; the cached info of a running
\* invocation is not modified afterwards; and whenever a still-frame or
\* transcode child of the run exists, every file of the run has its info.
C30_ProbedOnceBeforeFirstSpawn ==
    /\ [][\A r \in Slots :
            LET changed == { f \in Files : videoInfos'[r][f] # videoInfos[r][f] } IN
            (Active(r) /\ changed # {}) =>
                /\ pc[r] = "precache"
                /\ Cardinality(changed) = 1
                /\ \A f \in changed : videoInfos[r][f] = "none"]_vars
    /\ [](\A r \in Slots :
            (pc[r] \in Stages \cup {"verify"}) =>
                \A k \in 1..Len(chapters[r]) : videoInfos[r][chapters[r][k]] # "none")

\* Two distinct files were probed and the first child of the run is live.
C30_Witness ==
    \E r \in Slots :
        /\ pc[r] = "prefix"
        /\ i[r] = 1
        /\ proc[r] = "live"
        /\ chapters[r] = <<"A", "B">>
        /\ videoInfos[r]["A"] # "none"
        /\ videoInfos[r]["B"] # "none"

\* C27: pausing leaves no partially written output behind.  When an
\* interrupted attempt of a chapter is retried, the directory holds no
\* output file that the interrupted attempt created, so that the run
\* creates at most one output file for the chapter.
C27_NoPartialOutput ==
    call.op = "output" =>
        /\ Cardinality(call.made) <= 1
        /\ (call.stage = "stills" /\ call.pauses > 0) => call.made = {}

\* C21: a submitted chapter whose path is absent, blank or 'UNKNOWN_PATH'
\* is processed with its raw title as base name, in the directory
\* _UNMATCHED/<base name of its source file> (names as the program writes
\* directories, in upper case).
C21_UnmatchedKeepsRawTitle ==
    (call.op = "routing" /\ call.stage = "processing" /\ ~validPath(call.chapter.path)) =>
        /\ call.base = baseClipName(call.raw)
        /\ call.dir = <<<<"_", "U", "N", "M", "A", "T", "C", "H", "E", "D">>,
                        toUpperCase(basename(call.chapter.sourceFile))>>

\* The filter of the chapter under study has been built.
Built == call.op = "filter" /\ call.out # <<>>

\* C22: whatever the order of the markers, no range handed to ffmpeg is
\* inverted: video main trim, audio main trim and metadata chapter have
\* end >= start, and when endTime is below startTime the end of the segment
\* is startTime.
C22_NoInvertedRange ==
    Built =>
        LET f == call.out[1] IN
        /\ ~QLess(f.video.end, f.video.start)
        /\ f.audio # <<>> => ~QLess(f.audio[2].end, f.audio[2].start)
        /\ f.END >= f.START
        /\ f.endTime < f.startTime =>
              /\ QEq(f.video.end, Q(f.startTime))
              /\ f.audio # <<>> => QEq(f.audio[2].end, Q(f.startTime))

\* C23: every still-frame capture, the video main trim and every audio
\* trim of the chapter use a start time >= 0.
C23_NoNegativeStart ==
    Built =>
        LET f == call.out[1] IN
        /\ ~QLess(f.prefixSeek, Q(0))
        /\ ~QLess(f.suffixSeek, Q(0))
        /\ ~QLess(f.video.start, Q(0))
        /\ \A n \in DOMAIN f.audio :
              f.audio[n].kind = "atrim" => ~QLess(f.audio[n].start, Q(0))

\* C24: for a frame rate num/den the handle is 10 * den / num seconds, the
\* metadata chapter has START = the handle in microseconds (rounded) and
\* END = START + (endTime - startTime) in microseconds.
C24_HandleIsTenFrames ==
    Built =>
        LET f == call.out[1]
            num == call.in.rate[1]
            den == call.in.rate[2]
        IN /\ f.handle[1] * num = 10 * den * f.handle[2]
           /\ f.START = (2 * 10 * den * timebase + num) \div (2 * num)
           /\ f.END = f.START + (f.endTime - f.startTime) * timebase

\* 15/2 frames per second, a chapter of two seconds: the handle is 4/3 s.
C24_Witness ==
    /\ Built
    /\ call.in.rate = <<15, 2>>
    /\ call.out[1].START = 1333333
    /\ call.out[1].END = 3333333

\* Chapter k is the first chapter of its source file in the list.
FirstInFile(chs, k) == \A j \in DOMAIN chs : j < k => chs[j].sourceFile # chs[k].sourceFile

\* C25 as stated: with an audio stream, the audio prefix is synthesized
\* silence exactly when the chapter is the first chapter of its source
\* file, and otherwise the real audio from max(0, startTime - handle) to
\* startTime.
C25_SilenceIffFirstInFile ==
    (Built /\ call.out[1].audio # <<>>) =>
        LET f == call.out[1]
            first == FirstInFile(call.in.chapters, call.in.i)
        IN /\ (f.audio[1].kind = "anullsrc") <=> first
           /\ ~first =>
                 /\ QEq(f.audio[1].end, Q(f.startTime))
                 /\ QEq(f.audio[1].start, QMax(Q(0), QSub(Q(f.startTime), f.handle)))

\* C25, amended: with an audio stream, the audio prefix is synthesized
\* silence of the handle's length exactly when startTime is below the
\* handle, and otherwise the real audio from startTime - handle (which is
\* not below 0) to startTime.
C25_SilenceIffStartBelowHandle ==
    (Built /\ call.out[1].audio # <<>>) =>
        LET f == call.out[1]
            num == call.in.rate[1]
            den == call.in.rate[2]
            below == f.startTime * num < 10 * den
        IN /\ (f.audio[1].kind = "anullsrc") <=> below
           /\ below => QEq(f.audio[1].end, <<10 * den, num>>)
           /\ ~below =>
                 /\ f.audio[1].kind = "atrim"
                 /\ QEq(f.audio[1].end, Q(f.startTime))
                 /\ QEq(f.audio[1].start, <<f.startTime * num - 10 * den, num>>)
                 /\ ~QLess(f.audio[1].start, Q(0))

\* At 25 frames per second the first chapter of a file starts at 2 s: its
\* audio prefix is the real audio from 1.6 s to 2 s.
C25_Witness ==
    /\ Built
    /\ call.out[1].audio # <<>>
    /\ call.in.rate = <<25, 1>>
    /\ FirstInFile(call.in.chapters, call.in.i)
    /\ call.out[1].startTime = 2
    /\ call.out[1].audio[1].kind = "atrim"
    /\ QEq(call.out[1].audio[1].start, <<8, 5>>)

\* The status of the last chapter-update of invocation r that names
\* chapter k ("none" if there is none).
LastStatus(r, k) ==
    LET P == { p \in Updates(r) : log[r][p].k = k }
    IN IF P = {} THEN "none"
       ELSE log[r][CHOOSE p \in P : \A q \in P : q <= p].s

\* C32: when a run has ended, every chapter that received Processing has
\* Done, Error or Stopped as its last status.
C32_AnnouncedChaptersSettled ==
    \A r \in Slots :
        pc[r] = "done" =>
            \A k \in 1..Len(chapters[r]) :
                Count(r, k, "Processing") >= 1 =>
                    LastStatus(r, k) \in {"Done", "Error", "Stopped"}

\* C33: processing-complete is sent only when every chapter of the
\* submitted list has Done or Error as its last status.
C33_CompleteMeansAllSettled ==
    \A r \in Slots :
        (\E p \in DOMAIN log[r] : log[r][p].s = "processing-complete") =>
            \A k \in 1..Len(chapters[r]) : LastStatus(r, k) \in {"Done", "Error"}

\* A run of two chapters completed: the first one failed, the second one
\* was interrupted by pause, retried and done.
C33_Witness ==
    \E r \in Slots :
        /\ pc[r] = "done"
        /\ Last(log[r]).s = "processing-complete"
        /\ Len(chapters[r]) = 2
        /\ LastStatus(r, 1) = "Error"
        /\ Count(r, 2, "Paused") >= 1
        /\ LastStatus(r, 2) = "Done"

\* C34: whenever an ffmpeg child spawned by runFfmpeg is live and no kill
\* has been sent to it, currentFfmpegProcess refers to it.
C34_LiveChildIsTracked ==
    \A r \in Slots : proc[r] = "live" => currentFfmpegProcess = r

\* The child of a retry after pause and resume is live and tracked.
C34_Witness ==
    \E r \in Slots :
        /\ proc[r] = "live"
        /\ currentFfmpegProcess = r
        /\ pc[r] = "transcode"
        /\ Count(r, i[r], "Paused") >= 1

\* C35: isProcessing is true exactly while a processing loop is active;
\* after a run has ended (completion, stop, missing binaries, pre-cache
\* failure) isProcessing is false and no handle is tracked.
C35_IsProcessingIffActive ==
    /\ processingState.isProcessing <=> (\E r \in Slots : Active(r))
    /\ (\A r \in Slots : ~Active(r)) => currentFfmpegProcess = 0

\* C38: commands received while no run is active change nothing but the
\* three flags, and the next run starts by setting all three: isProcessing
\* true, isPaused and shouldStop false.  The run therefore goes on from the
\* state it would have started from without the commands.
C38_IdleCommandsHaveNoEffect ==
    [][/\ (commands' # commands /\ \A r \in Slots : ~Active(r)) =>
             UNCHANGED <<currentFfmpegProcess, rendererIsProcessing, pc, chapters, i,
                         videoInfos, proc, log, started, stopIssued, stopAt,
                         temps, rendererChapters, baseTitles>>
       /\ \A r \in Slots :
             (started' # started /\ pc'[r] = "precache" /\ pc[r] # "precache") =>
                 processingState' = [isProcessing |-> TRUE, isPaused |-> FALSE,
                                     shouldStop |-> FALSE]]_vars

\* A command was received before the first run; the run then went through
\* its only chapter to processing-complete.
C38_Witness ==
    \E r \in Slots :
        /\ call = [op |-> "idle", started |-> 0]
        /\ started = 1
        /\ commands = MaxCommands
        /\ pc[r] = "done"
        /\ chapters[r] = <<"A">>
        /\ log[r] = <<Entry(1, "Processing", ""), Entry(1, "Done", ""),
                      Entry(0, "processing-complete", "")>>

\* The length of an audio part.
Length(part) == QSub(part.end, part.start)

\* C37 as stated: with an audio stream, the audio prefix and the audio
\* suffix of every chapter each last exactly the handle (ten frames).
C37_PrefixAndSuffixLastHandle ==
    (Built /\ call.out[1].audio # <<>>) =>
        LET f == call.out[1]
        IN /\ QEq(Length(f.audio[1]), f.handle)
           /\ QEq(Length(f.audio[3]), f.handle)

\* C37, amended: with an audio stream, the audio prefix lasts exactly the
\* handle; the audio suffix lasts the handle when it is synthesized silence
\* (endTime within one frame of the file's duration), and otherwise it is
\* the real audio from endTime that lasts the handle or, if the file ends
\* sooner, only up to the end of the file.
C37_SuffixEndsWithFile ==
    (Built /\ call.out[1].audio # <<>>) =>
        LET f == call.out[1]
            num == call.in.rate[1]
            den == call.in.rate[2]
            left == parseFloat(call.in.videoDuration) - f.endTime
            silent == left * num < den
        IN /\ QEq(Length(f.audio[1]), <<10 * den, num>>)
           /\ (f.audio[3].kind = "anullsrc") <=> silent
           /\ QEq(Length(f.audio[3]),
                  IF ~silent /\ left * num < 10 * den THEN Q(left)
                  ELSE <<10 * den, num>>)

\* 15/2 frames per second, a file of 3 s: the chapter that ends at 2 s has
\* the real audio [2, 3) as its suffix, one second where the handle is 4/3 s.
C37_Witness ==
    /\ Built
    /\ call.out[1].audio # <<>>
    /\ call.in.rate = <<15, 2>>
    /\ call.out[1].endTime = 2
    /\ call.out[1].audio[3] = [kind |-> "atrim", start |-> Q(2), end |-> Q(3)]
    /\ QLess(Length(call.out[1].audio[3]), call.out[1].handle)

\* C36: the chapter ids of one analysis are pairwise distinct over all
\* chapters of all analysed files, so a chapter-update about a chapter of
\* the list is applied to that chapter.
C36_ChapterIdsDistinct ==
    call.op = "ids" =>
        /\ \A j, k \in DOMAIN call.allChapters :
              j # k => call.allChapters[j].id # call.allChapters[k].id
        /\ call.update.found = call.update.sent

\* C31: on a platform other than Windows a kill of the tracked child first
\* targets the child's process group (the child was spawned detached) and,
\* if and only if that fails, the single process; either way the handle is
\* cleared and nothing is thrown to the pause or stop command.
C31_GroupKillFallsBack ==
    [][(/\ call.op = "kill"
        /\ call'.kills # call.kills
        /\ call.platform # "win32"
        /\ call.handle # 0) =>
          /\ call.children[call.handle].detached
          /\ call'.signals = IF call'.groupFailed THEN <<"group", "single">>
                             ELSE <<"group">>
          /\ call'.children[call.handle].status =
                IF call'.groupFailed THEN "single" ELSE "group"
          /\ call'.handle = 0
          /\ ~call'.threw]_vars

\* A stop on Linux whose group kill failed: the second child was then
\* killed alone and the handle is cleared.
C31_Witness ==
    /\ call.op = "kill"
    /\ call.platform = "linux"
    /\ call.reason = "stop"
    /\ call.groupFailed
    /\ call.signals = <<"group", "single">>
    /\ Len(call.children) = 2
    /\ call.children[2].status = "single"
    /\ call.handle = 0
    /\ ~call.threw

====
